---- MODULE Spec2Model ----
(***************************************************************************)
(* The task-batch bridge of the desktop client: the IPC handler            *)
(* "executeTasks" (main/ipc/taskHandlers.ts) and the worker-process        *)
(* bridge (main/services/ActionExecutorService.ts).  The worker is a       *)
(* child process reached over its stdin / stdout byte streams.             *)
(***************************************************************************)
EXTENDS Integers, Sequences, FiniteSets, TLC

(* ------------------------------ bounds -------------------------------- *)
\* IPC invocations of "executeTasks" in one run
MaxCalls == 2
\* worker processes spawned in one run
MaxSpawn == 1
\* non-response lines ("normal logs") the worker prints on stdout in one run
MaxNoise == 1
\* HTTP requests of the renderer in one run
MaxRequests == 2
\* token refreshes started in one run
MaxRefresh == 2
\* calls of SocketService.connect() in one run
MaxConnects == 2
\* TTS streams the server sends in one run
MaxStreams == 2
\* tts-chunk events the server sends in one run
MaxChunks == 3
\* calls of stop() in one run
MaxStops == 1
\* recording sessions the voice input starts in one run
MaxSessions == 2
\* MediaRecorders the voice input creates in one run
MaxSegments == 3

Calls == 1..MaxCalls
Workers == 1..MaxSpawn
Requests == 1..MaxRequests
Runs == 1..MaxRefresh
\* the calls of connect(); the socket a call creates bears the call's number
Connects == 1..MaxConnects
Streams == 1..MaxStreams
\* chunk i of stream s is <<s, i>>
Chunks == Streams \X (1..MaxChunks)
NoAudio == <<0, 0>>
\* session ids are numbered in the order createSessionId() makes them
Sessions == 1..MaxSessions
\* the MediaRecorders, numbered in the order they are created
Recorders == 1..MaxSegments
\* the audio level of a frame: above SPEAKING_THRESHOLD, between the
\* thresholds, at or below SILENCE_THRESHOLD
Levels == {"speech", "between", "silence"}
SPEAKING_CONFIRMATION_SAMPLES == 2

(* ------------------------- program constants -------------------------- *)
timeoutPerTask == 30000
maxBatchTimeout == 300000

(* ------------------------------ helpers ------------------------------- *)
Min(a, b) == IF a <= b THEN a ELSE b

SetMin(S) == CHOOSE x \in S : \A y \in S : x <= y

\* a batch long enough for n x timeoutPerTask to exceed the cap
LongBatch == (maxBatchTimeout \div timeoutPerTask) + 1

(* ------------------------------ inputs -------------------------------- *)
\* A Task: its taskId, the taskIds of dependsOn, the taskIds its
\* inputBindings refer to, and control.requiresApproval, control.onFailure
\* and control.timeoutMs.
Task(i, deps, binds, approval, policy, ms) ==
    [taskId |-> i, dependsOn |-> deps, inputBindings |-> binds,
     requiresApproval |-> approval, onFailure |-> policy, timeoutMs |-> ms]

\* A TaskRecord of a task that depends on nothing and needs no approval.
TaskRecord(i, ms) == Task(i, {}, {}, FALSE, "continue", ms)

Batch(n, ms) == [i \in 1..n |-> TaskRecord(i, ms)]

\* what a renderer can pass as `tasks`: null, undefined, a non-array value,
\* an empty array, and arrays of 2 and of LongBatch tasks, whose own
\* control.timeoutMs lie above and below the batch timeout
InvalidInputs == {[kind |-> "null", tasks |-> <<>>],
                  [kind |-> "undefined", tasks |-> <<>>],
                  [kind |-> "string", tasks |-> <<>>],
                  [kind |-> "array", tasks |-> <<>>]}

ValidInputs == {[kind |-> "array", tasks |-> Batch(2, 400000)],
                [kind |-> "array", tasks |-> Batch(LongBatch, 5000)]}

Inputs == InvalidInputs \cup ValidInputs

NoInput == [kind |-> "none", tasks |-> <<>>]

\* Batches of two tasks as the planner sends them: task 2 depending on the
\* output of task 1, whose failure policy is "abort"; two tasks depending on
\* each other; a task that requires approval; two independent tasks.
ChainBatch ==
    <<Task(1, {}, {}, FALSE, "abort", 30000),
      Task(2, {1}, {1}, FALSE, "continue", 30000)>>

CycleBatch ==
    <<Task(1, {2}, {}, FALSE, "continue", 30000),
      Task(2, {1}, {}, FALSE, "continue", 30000)>>

ApprovalBatch ==
    <<Task(1, {}, {}, TRUE, "continue", 30000),
      Task(2, {}, {}, FALSE, "continue", 30000)>>

PlainBatch == Batch(2, 30000)

PlanInputs ==
    {[kind |-> "array", tasks |-> b] :
        b \in {ChainBatch, CycleBatch, ApprovalBatch, PlainBatch}}

(* --------------------------- bytes and text --------------------------- *)
\* The alphabet of the worker's stdout.  "C3" "A9" are the two bytes of the
\* UTF-8 encoding of U+00E9; "x" stands for text that is not JSON.
IdChar == <<"1", "2", "3", "4">>
BodyChars == {"1", "2", "3", "4", "k", "e", "E9", "FFFD"}

\* Buffer.toString(): UTF-8 decoding of one chunk on its own; a byte
\* sequence that is not a complete character decodes to U+FFFD.
RECURSIVE toString(_)
toString(raw) ==
    IF raw = <<>> THEN <<>>
    ELSE IF raw[1] = "C3"
         THEN IF Len(raw) >= 2 /\ raw[2] = "A9"
              THEN <<"E9">> \o toString(SubSeq(raw, 3, Len(raw)))
              ELSE <<"FFFD">> \o toString(Tail(raw))
         ELSE IF raw[1] = "A9"
              THEN <<"FFFD">> \o toString(Tail(raw))
              ELSE <<raw[1]>> \o toString(Tail(raw))

\* the UTF-8 encoding of a text, as the worker writes it
RECURSIVE Utf8(_)
Utf8(text) ==
    IF text = <<>> THEN <<>>
    ELSE (IF text[1] = "E9" THEN <<"C3", "A9">> ELSE <<text[1]>>)
         \o Utf8(Tail(text))

RECURSIVE TrimLeft(_)
TrimLeft(s) == IF s # <<>> /\ s[1] = "\n" THEN TrimLeft(Tail(s)) ELSE s

RECURSIVE TrimRight(_)
TrimRight(s) ==
    IF s # <<>> /\ s[Len(s)] = "\n"
    THEN TrimRight(SubSeq(s, 1, Len(s) - 1))
    ELSE s

\* JSON.parse on the text: one JSON value with optional white space around
\* it.  In this alphabet the only values are objects "{" body "}".
JSONparse(text) ==
    LET t == TrimRight(TrimLeft(text))
        ok == /\ Len(t) >= 2
              /\ t[1] = "{"
              /\ t[Len(t)] = "}"
              /\ \A i \in 2..(Len(t) - 1) : t[i] \in BodyChars
    IN  [ok |-> ok, value |-> IF ok THEN SubSeq(t, 2, Len(t) - 1) ELSE <<>>]

(* ------------------------------- state -------------------------------- *)
VARIABLES
    executorProcess,  \* the module-level handle: 0 (null) or a worker
    proc,             \* per worker: "unborn", "alive", "nostreams", "dead", "reaped"
    stdin,            \* per worker: requests written and not yet read
    stdout,           \* per worker: bytes printed and not yet read by the bridge
    listener,         \* per worker: the "data" listener of its stdout
    pc,               \* per call: "idle", "pending", "done"
    arg,              \* per call: the `tasks` argument
    target,           \* per call: the worker the request was written to (0: none)
    buffer,           \* per call: the closure's text buffer
    timeout,          \* per call: the setTimeout handle, [active, total]
    waited,           \* per call: milliseconds since the request was submitted
    outcome,          \* per call: what the IPC handler gave the renderer
    written,          \* per call: the body of the response the worker printed for it
    noise,            \* non-response lines printed so far
    \* the renderer's handler of task batches (useAiResponseHandler)
    callback,         \* per call: the callback handleTaskBatch ended with
    emitted,          \* the task events the renderer has emitted to the server
    \* the token refresh manager and the axios interceptors
    isRefreshing,    \* TokenRefreshManager.isRefreshing
    refreshPromise,  \* TokenRefreshManager.refreshPromise: 0 (null) or a run
    failedQueue,     \* TokenRefreshManager.failedQueue: the requests waiting
    refresh,         \* per run of the refresh: position, error, tokens cleared
    tokens,          \* the token store behind window.electronApi
    req,             \* per request: position in the interceptors, _retry, resent
    \* SocketService
    socket,           \* this.socket: 0 (null) or a socket
    connecting,       \* this.connecting
    connectionState,  \* this.connectionState, and the socket whose handler set it
    conn,             \* per call of connect(): "idle", "getAccessToken", "import", "done"
    sock,             \* per socket: "unborn", "bound", "connected", "removed"
    \* SparkTTSProvider
    activeStreamId,       \* activeStreamIdRef: 0 (null) or a stream
    chunkQueue,           \* chunkQueueRef: the chunks of the active stream not yet played
    pendingStreams,       \* pendingStreamsRef: [streamId, chunks, ended] records
    audioElement,         \* audioElementRef: NoAudio (null) or the chunk of the Audio
    isPlayingChunk,       \* isPlayingChunkRef
    stopped,              \* stoppedRef
    currentStreamEnded,   \* currentStreamEndedRef
    lastAudioEndTime,     \* lastAudioEndTimeRef: 0, or 1 once an audio has ended
    audio,                \* per chunk: its Audio is "none", "playing" or "stale"
    delayTimers,          \* pending micro-delay timeouts of moveToNextStream
    resetTimers,          \* pending 100 ms timeouts of stop()
    stops,                \* calls of stop() so far
    delivered,            \* per stream: the events that have arrived
    streamRef,            \* AudioInput: the microphone stream is open
    speakingSamplesRef,   \* consecutive frames above SPEAKING_THRESHOLD
    isSpeakingRef,
    silenceTimeoutRef,    \* the silence timeout is pending
    isRecordingRef,
    isProcessingRef,      \* the processing lock
    processingTimeoutRef, \* 0 (null) or the safety timeout of a session
    timeouts,             \* the safety timeouts that are pending
    sessionIdRef,         \* 0 (null) or the id of the session
    seqRef,
    mediaRecorderRef,     \* 0 (null) or a recorder
    chunkTimerRef,        \* 0 (null) or the recorder whose stop is scheduled
    chunkTimers,          \* the recorders whose scheduled stop is pending
    recorder,             \* per recorder: "recording", "stopping" (stop
                          \* event queued), "reading" (onstop awaits
                          \* blob.arrayBuffer()), else "none"
    sessions,             \* sessions started so far
    segments,             \* recorders created so far
    userSpeaking,         \* sessionId of the last user-speaking emitted
                          \* (0: null), -1 before the first
    userStopSpeaking,     \* sessionId of the last user-stop-speaking emitted
    stopListeningAwaits   \* stopListening() is in its 300 ms wait

bridgeVars == <<executorProcess, proc, stdin, stdout, listener, pc, arg, target,
                buffer, timeout, waited, outcome, written, noise>>

rendererVars == <<callback, emitted>>

authVars == <<isRefreshing, refreshPromise, failedQueue, refresh, tokens, req>>

socketVars == <<socket, connecting, connectionState, conn, sock>>

ttsVars == <<activeStreamId, chunkQueue, pendingStreams, audioElement,
             isPlayingChunk, stopped, currentStreamEnded, lastAudioEndTime, audio,
             delayTimers, resetTimers, stops, delivered>>

micVars == <<streamRef, speakingSamplesRef, isSpeakingRef, silenceTimeoutRef,
             isRecordingRef, isProcessingRef, processingTimeoutRef, timeouts,
             sessionIdRef, seqRef, mediaRecorderRef, chunkTimerRef, chunkTimers,
             recorder, sessions, segments, userSpeaking, userStopSpeaking,
             stopListeningAwaits>>

nonBridgeVars == <<rendererVars, authVars, socketVars, ttsVars, micVars>>
nonRendererVars == <<bridgeVars, authVars, socketVars, ttsVars, micVars>>
nonAuthVars == <<bridgeVars, rendererVars, socketVars, ttsVars, micVars>>
nonSocketVars == <<bridgeVars, rendererVars, authVars, ttsVars, micVars>>
nonTtsVars == <<bridgeVars, rendererVars, authVars, socketVars, micVars>>
nonMicVars == <<bridgeVars, rendererVars, authVars, socketVars, ttsVars>>

vars == <<bridgeVars, rendererVars, authVars, socketVars, ttsVars, micVars>>

\* kind: "returned" or "thrown"; via: the line of the handler that ended it
\* ("check": the validation returns, "result": return result, "catch": the
\* catch block, "throw": an exception outside the try block)
NoOutcome ==
    [kind |-> "none", via |-> "", status |-> "", results |-> <<>>, message |-> ""]

NoTimer == [active |-> FALSE, total |-> 0]

\* a refresh that has not been started (cause: what made it fail; cleared:
\* it has deleted the stored tokens)
NoRun == [pc |-> "unborn", cause |-> "none", cleared |-> FALSE]

\* a request before it is passed to axiosInstance
\* (seen: the access token getValidAccessToken() has read; awaits: the
\* refresh whose promise the request is waiting for; resent: the response
\* interceptor has passed the request to axiosInstance again)
NewRequest ==
    [pc |-> "ready", seen |-> "none", retry |-> FALSE, resent |-> FALSE, awaits |-> 0]

Init ==
    /\ executorProcess = 0
    /\ proc = [w \in Workers |-> "unborn"]
    /\ stdin = [w \in Workers |-> <<>>]
    /\ stdout = [w \in Workers |-> <<>>]
    /\ listener = [w \in Workers |-> <<>>]
    /\ pc = [c \in Calls |-> "idle"]
    /\ arg = [c \in Calls |-> NoInput]
    /\ target = [c \in Calls |-> 0]
    /\ buffer = [c \in Calls |-> <<>>]
    /\ timeout = [c \in Calls |-> NoTimer]
    /\ waited = [c \in Calls |-> 0]
    /\ outcome = [c \in Calls |-> NoOutcome]
    /\ written = [c \in Calls |-> <<>>]
    /\ noise = 0
    /\ callback = [c \in Calls |-> "none"]
    /\ emitted = {}
    /\ isRefreshing = FALSE
    /\ refreshPromise = 0
    /\ failedQueue = <<>>
    /\ refresh = [n \in Runs |-> NoRun]
    /\ tokens = [access_token |-> "valid", refresh_token |-> "stored"]
    /\ req = [r \in Requests |-> NewRequest]
    /\ socket = 0
    /\ connecting = FALSE
    /\ connectionState = [connected |-> FALSE, from |-> 0]
    /\ conn = [k \in Connects |-> "idle"]
    /\ sock = [k \in Connects |-> "unborn"]
    /\ activeStreamId = 0
    /\ chunkQueue = <<>>
    /\ pendingStreams = <<>>
    /\ audioElement = NoAudio
    /\ isPlayingChunk = FALSE
    /\ stopped = FALSE
    /\ currentStreamEnded = FALSE
    /\ lastAudioEndTime = 0
    /\ audio = [ch \in Chunks |-> "none"]
    /\ delayTimers = 0
    /\ resetTimers = 0
    /\ stops = 0
    /\ delivered = [st \in Streams |-> [start |-> FALSE, chunks |-> 0, end |-> FALSE]]
    /\ streamRef = FALSE
    /\ speakingSamplesRef = 0
    /\ isSpeakingRef = FALSE
    /\ silenceTimeoutRef = FALSE
    /\ isRecordingRef = FALSE
    /\ isProcessingRef = FALSE
    /\ processingTimeoutRef = 0
    /\ timeouts = {}
    /\ sessionIdRef = 0
    /\ seqRef = 0
    /\ mediaRecorderRef = 0
    /\ chunkTimerRef = 0
    /\ chunkTimers = {}
    /\ recorder = [rec \in Recorders |-> "none"]
    /\ sessions = 0
    /\ segments = 0
    /\ userSpeaking = -1
    /\ userStopSpeaking = 0
    /\ stopListeningAwaits = FALSE

(* ---------------------- the worker process handle --------------------- *)
\* isActionExecutorRunning()
isActionExecutorRunning == executorProcess # 0

\* startActionExecutor(): spawn a worker and keep its handle.  The spawn
\* either gives a process with its three pipes (and the log listener on
\* stdout), or fails ("error" event, no streams, no "exit" event).
\* w is the process spawned; processes are numbered in spawning order.
startActionExecutor(w) ==
    /\ proc[w] = "unborn"
    /\ \A v \in Workers : v < w => proc[v] # "unborn"
    /\ \E ok \in BOOLEAN :
          /\ proc' = [proc EXCEPT ![w] = IF ok THEN "alive" ELSE "nostreams"]
          /\ listener' = [listener EXCEPT ![w] = IF ok THEN <<0>> ELSE <<>>]
    /\ executorProcess' = w
    /\ UNCHANGED <<stdin, stdout, pc, arg, target, buffer, timeout, waited,
                   outcome, written, noise>>
    /\ UNCHANGED nonBridgeVars

\* killActionExecutor(): signal the process and clear the handle.
killActionExecutor ==
    /\ executorProcess # 0
    /\ proc' = [proc EXCEPT ![executorProcess] =
                   IF @ = "alive" THEN "dead" ELSE @]
    /\ executorProcess' = 0
    /\ UNCHANGED <<stdin, stdout, listener, pc, arg, target, buffer, timeout,
                   waited, outcome, written, noise>>
    /\ UNCHANGED nonBridgeVars

\* the "exit" listener installed by startActionExecutor()
onExit(w) ==
    /\ proc[w] = "dead"
    /\ proc' = [proc EXCEPT ![w] = "reaped"]
    /\ executorProcess' = 0
    /\ UNCHANGED <<stdin, stdout, listener, pc, arg, target, buffer, timeout,
                   waited, outcome, written, noise>>
    /\ UNCHANGED nonBridgeVars

(* ------------------------- the IPC entry point ------------------------ *)
Returned(via, status, results, message) ==
    [kind |-> "returned", via |-> via, status |-> status, results |-> results,
     message |-> message]

Thrown(via, message) ==
    [kind |-> "thrown", via |-> via, status |-> "", results |-> <<>>,
     message |-> message]

\* the handler without its catch block: the rejection reaches the renderer
catchErrorRethrown(message) == Thrown("catch", message)

\* the catch block of the "executeTasks" handler
catchError(message) == Returned("catch", "error", <<>>, message)

\* the object JSON.parse gave, returned to the renderer as it is
StatusOf(value) ==
    IF Len(value) >= 2 /\ value[2] = "k" THEN "ok"
    ELSE IF Len(value) >= 2 /\ value[2] = "e" THEN "error"
    ELSE "undefined"

Parsed(value) == Returned("result", StatusOf(value), value, "")

\* a timeout that honours the tasks' own control.timeoutMs
totalTimeoutOfTasks(tasks) ==
    Min(Min(Len(tasks) * timeoutPerTask, tasks[1].timeoutMs), maxBatchTimeout)

\* totalTimeout in executeTaskBatch()
totalTimeout(tasks) == Min(Len(tasks) * timeoutPerTask, maxBatchTimeout)

\* executorProcess?.stdout?.removeListener("data", dataHandler) of call c:
\* it acts on the stdout of the process the handle names now
removeListener(c) ==
    [w \in Workers |->
        IF w = executorProcess /\ listener[w] = <<c>> THEN <<>> ELSE listener[w]]

Finish(c, o) ==
    /\ pc' = [pc EXCEPT ![c] = "done"]
    /\ outcome' = [outcome EXCEPT ![c] = o]

\* calls are numbered in the order in which they are made
NextCall(c) == pc[c] = "idle" /\ (IF c = 1 THEN TRUE ELSE pc[c - 1] # "idle")

\* "executeTasks" with null or undefined: tasks.length (line 21, before the
\* try block) throws a TypeError out of the handler
executeTasksNullish(c, input) ==
    /\ NextCall(c)
    /\ input.kind \in {"null", "undefined"}
    /\ arg' = [arg EXCEPT ![c] = input]
    /\ Finish(c, Thrown("throw", "TypeError"))
    /\ UNCHANGED <<executorProcess, proc, stdin, stdout, listener, target,
                   buffer, timeout, waited, written, noise>>
    /\ UNCHANGED nonBridgeVars

\* "executeTasks" while the handle is null
executeTasksNotRunning(c, input) ==
    /\ NextCall(c)
    /\ input.kind \notin {"null", "undefined"}
    /\ ~isActionExecutorRunning
    /\ arg' = [arg EXCEPT ![c] = input]
    /\ Finish(c, Returned("check", "error", <<>>,
                          "Action Executor process is not running"))
    /\ UNCHANGED <<executorProcess, proc, stdin, stdout, listener, target,
                   buffer, timeout, waited, written, noise>>
    /\ UNCHANGED nonBridgeVars

\* "executeTasks" with a value that is not a non-empty array
executeTasksInvalid(c, input) ==
    /\ NextCall(c)
    /\ input.kind \notin {"null", "undefined"}
    /\ isActionExecutorRunning
    /\ input.kind # "array" \/ Len(input.tasks) = 0
    /\ arg' = [arg EXCEPT ![c] = input]
    /\ Finish(c, Returned("check", "error", <<>>,
                          "Invalid tasks input - expected non-empty array"))
    /\ UNCHANGED <<executorProcess, proc, stdin, stdout, listener, target,
                   buffer, timeout, waited, written, noise>>
    /\ UNCHANGED nonBridgeVars

Accepted(input) ==
    /\ input.kind = "array"
    /\ Len(input.tasks) > 0
    /\ isActionExecutorRunning

\* executeTaskBatch() on a handle without streams: the promise is rejected
\* and the handler's catch returns the error
executeTaskBatchNoStreams(c, input) ==
    /\ NextCall(c)
    /\ Accepted(input)
    /\ proc[executorProcess] = "nostreams"
    /\ arg' = [arg EXCEPT ![c] = input]
    /\ Finish(c, catchError("Executor process streams are not available"))
    /\ UNCHANGED <<executorProcess, proc, stdin, stdout, listener, target,
                   buffer, timeout, waited, written, noise>>
    /\ UNCHANGED nonBridgeVars

\* JSON.stringify({ tasks }) + "\n": the line written to the worker's stdin.
\* call is the request the line belongs to; it is not part of the line.
Envelope(c, tasks) == [call |-> c, tasks |-> tasks]

\* an executeTaskBatch() that sets no timeout
executeTaskBatchWithoutTimeout(c, input) ==
    /\ NextCall(c)
    /\ Accepted(input)
    /\ proc[executorProcess] # "nostreams"
    /\ arg' = [arg EXCEPT ![c] = input]
    /\ listener' = [listener EXCEPT ![executorProcess] = <<c>>]
    /\ stdin' = [stdin EXCEPT ![executorProcess] =
                    IF proc[executorProcess] = "alive"
                    THEN Append(@, Envelope(c, input.tasks)) ELSE @]
    /\ target' = [target EXCEPT ![c] = executorProcess]
    /\ pc' = [pc EXCEPT ![c] = "pending"]
    /\ UNCHANGED <<executorProcess, proc, stdout, buffer, timeout, waited,
                   outcome, written, noise>>
    /\ UNCHANGED nonBridgeVars

\* an executeTaskBatch() that writes its envelope twice
executeTaskBatchWritesTwice(c, input) ==
    /\ NextCall(c)
    /\ Accepted(input)
    /\ proc[executorProcess] # "nostreams"
    /\ arg' = [arg EXCEPT ![c] = input]
    /\ timeout' = [timeout EXCEPT ![c] =
                    [active |-> TRUE, total |-> totalTimeout(input.tasks)]]
    /\ listener' = [listener EXCEPT ![executorProcess] = <<c>>]
    /\ stdin' = [stdin EXCEPT ![executorProcess] =
                    IF proc[executorProcess] = "alive"
                    THEN Append(Append(@, Envelope(c, input.tasks)),
                                Envelope(c, input.tasks))
                    ELSE @]
    /\ target' = [target EXCEPT ![c] = executorProcess]
    /\ pc' = [pc EXCEPT ![c] = "pending"]
    /\ UNCHANGED <<executorProcess, proc, stdout, buffer, waited, outcome,
                   written, noise>>
    /\ UNCHANGED nonBridgeVars

\* executeTaskBatch(): set the timeout, replace every "data" listener of
\* stdout by this call's dataHandler, write the envelope to stdin
executeTaskBatch(c, input) ==
    /\ NextCall(c)
    /\ Accepted(input)
    /\ proc[executorProcess] # "nostreams"
    /\ arg' = [arg EXCEPT ![c] = input]
    /\ timeout' = [timeout EXCEPT ![c] =
                    [active |-> TRUE, total |-> totalTimeout(input.tasks)]]
    /\ listener' = [listener EXCEPT ![executorProcess] = <<c>>]
    /\ stdin' = [stdin EXCEPT ![executorProcess] =
                    IF proc[executorProcess] = "alive"
                    THEN Append(@, Envelope(c, input.tasks)) ELSE @]
    /\ target' = [target EXCEPT ![c] = executorProcess]
    /\ pc' = [pc EXCEPT ![c] = "pending"]
    /\ UNCHANGED <<executorProcess, proc, stdout, buffer, waited, outcome,
                   written, noise>>
    /\ UNCHANGED nonBridgeVars

\* executeTaskBatch() when stdin.write() throws (the process is gone):
\* the timeout is cleared, the listener removed, the promise rejected
executeTaskBatchWriteFails(c, input) ==
    /\ NextCall(c)
    /\ Accepted(input)
    /\ proc[executorProcess] = "dead"
    /\ arg' = [arg EXCEPT ![c] = input]
    /\ listener' = [listener EXCEPT ![executorProcess] = <<>>]
    /\ target' = [target EXCEPT ![c] = executorProcess]
    /\ Finish(c, catchError("Failed to write to executor"))
    /\ UNCHANGED <<executorProcess, proc, stdin, stdout, buffer, timeout,
                   waited, written, noise>>
    /\ UNCHANGED nonBridgeVars

(* ------------------------------ the worker ---------------------------- *)
\* The bodies of the response envelope the worker may print for request r:
\* the request it answers, the status ("k": ok, "e": error), and for "ok"
\* the result data, a text with a character outside ASCII.
WorkerResponses(r) == {<<IdChar[r], "k", "E9">>, <<IdChar[r], "e">>}

Frame(body) == Utf8(<<"{">> \o body \o <<"}", "\n">>)

\* the worker reads the next request line and prints its response
WorkerRespond(w) ==
    /\ proc[w] = "alive"
    /\ stdin[w] # <<>>
    /\ \E body \in WorkerResponses(Head(stdin[w]).call) :
          /\ stdout' = [stdout EXCEPT ![w] = @ \o Frame(body)]
          /\ written' = [written EXCEPT ![Head(stdin[w]).call] = body]
    /\ stdin' = [stdin EXCEPT ![w] = Tail(@)]
    /\ UNCHANGED <<executorProcess, proc, listener, pc, arg, target, buffer,
                   timeout, waited, outcome, noise>>
    /\ UNCHANGED nonBridgeVars

\* The bodies the worker may print for request r seen task by task: the
\* request, the status ("k" when every task succeeded), then one entry per
\* task, its taskId and its outcome ("k": success, "e": failure), in the
\* order in which the tasks finished.  The worker runs every task it is given.
TaskResponses(r, tasks) ==
    LET n == Len(tasks)
        orders == {p \in [1..n -> 1..n] : \A a, b \in 1..n : p[a] = p[b] => a = b}
        outcomes == [1..n -> {"k", "e"}]
        entries(p, o) ==
            [j \in 1..(2 * n) |->
                IF j % 2 = 1 THEN IdChar[tasks[p[(j + 1) \div 2]].taskId]
                ELSE o[p[j \div 2]]]
        status(o) == IF \A i \in 1..n : o[i] = "k" THEN "k" ELSE "e"
    IN  {<<IdChar[r], status(o)>> \o entries(p, o) : p \in orders, o \in outcomes}

\* the worker reads the next request line, runs its tasks and prints the
\* response with the result of each task
WorkerRunBatch(w) ==
    /\ proc[w] = "alive"
    /\ stdin[w] # <<>>
    /\ \E body \in TaskResponses(Head(stdin[w]).call, Head(stdin[w]).tasks) :
          /\ stdout' = [stdout EXCEPT ![w] = @ \o Frame(body)]
          /\ written' = [written EXCEPT ![Head(stdin[w]).call] = body]
    /\ stdin' = [stdin EXCEPT ![w] = Tail(@)]
    /\ UNCHANGED <<executorProcess, proc, listener, pc, arg, target, buffer,
                   timeout, waited, outcome, noise>>
    /\ UNCHANGED nonBridgeVars

\* the worker prints a log line, which is not a response, on stdout
WorkerLog(w) ==
    /\ proc[w] = "alive"
    /\ noise < MaxNoise
    /\ noise' = noise + 1
    /\ stdout' = [stdout EXCEPT ![w] = @ \o <<"x", "\n">>]
    /\ UNCHANGED <<executorProcess, proc, stdin, listener, pc, arg, target,
                   buffer, timeout, waited, outcome, written>>
    /\ UNCHANGED nonBridgeVars

\* the worker process crashes or exits; what it had not read is lost
WorkerExit(w) ==
    /\ proc[w] = "alive"
    /\ proc' = [proc EXCEPT ![w] = "dead"]
    /\ stdin' = [stdin EXCEPT ![w] = <<>>]
    /\ UNCHANGED <<executorProcess, stdout, listener, pc, arg, target, buffer,
                   timeout, waited, outcome, written,
                   noise>>
    /\ UNCHANGED nonBridgeVars

(* --------------------------- reading stdout --------------------------- *)
\* clearTimeout(timeout) of call c; the time waited is of no use after it
clearTimeout(c) ==
    IF timeout[c].active
    THEN /\ timeout' = [timeout EXCEPT ![c] = NoTimer]
         /\ waited' = [waited EXCEPT ![c] = 0]
    ELSE UNCHANGED <<timeout, waited>>

\* a dataHandler that resolves and leaves its timeout and its listener behind
dataHandlerLeavesListener(c, raw) ==
    LET text == buffer[c] \o toString(raw)
        parsed == JSONparse(text)
    IN  IF parsed.ok
        THEN /\ IF pc[c] = "pending"
                THEN Finish(c, Parsed(parsed.value))
                ELSE UNCHANGED <<pc, outcome>>
             /\ buffer' = [buffer EXCEPT ![c] = <<>>]
             /\ UNCHANGED <<timeout, waited, listener>>
        ELSE /\ buffer' = [buffer EXCEPT ![c] = text]
             /\ UNCHANGED <<timeout, waited, listener, pc, outcome>>

\* dataHandler(raw) of call c
dataHandler(c, raw) ==
    LET text == buffer[c] \o toString(raw)
        parsed == JSONparse(text)
    IN  IF parsed.ok
        THEN /\ clearTimeout(c)
             /\ listener' = removeListener(c)
             /\ IF pc[c] = "pending"
                THEN Finish(c, Parsed(parsed.value))
                ELSE UNCHANGED <<pc, outcome>>
             /\ buffer' = [buffer EXCEPT ![c] = <<>>]
        ELSE /\ buffer' = [buffer EXCEPT ![c] = text]
             /\ UNCHANGED <<timeout, waited, listener, pc, outcome>>

\* a "data" event of a worker's stdout: the first k bytes not yet read
onData(w, k) ==
    /\ proc[w] \in {"alive", "dead", "reaped"}
    /\ k \in 1..Len(stdout[w])
    /\ stdout' = [stdout EXCEPT ![w] = SubSeq(@, k + 1, Len(@))]
    /\ IF listener[w] # <<>> /\ listener[w][1] \in Calls
       THEN dataHandler(listener[w][1], SubSeq(stdout[w], 1, k))
       ELSE UNCHANGED <<buffer, timeout, waited, listener, pc, outcome>>
    /\ UNCHANGED <<executorProcess, proc, stdin, arg, target, written, noise>>
    /\ UNCHANGED nonBridgeVars

(* ------------------------------- time --------------------------------- *)
\* a setTimeout callback that cleans up and forgets to reject
onTimeoutSilent(c) ==
    /\ timeout[c].active
    /\ waited[c] >= timeout[c].total
    /\ timeout' = [timeout EXCEPT ![c] = [@ EXCEPT !.active = FALSE]]
    /\ listener' = removeListener(c)
    /\ UNCHANGED <<executorProcess, proc, stdin, stdout, arg, target, buffer,
                   waited, written, noise, pc, outcome>>
    /\ UNCHANGED nonBridgeVars

\* the setTimeout callback of call c
onTimeout(c) ==
    /\ timeout[c].active
    /\ waited[c] >= timeout[c].total
    /\ timeout' = [timeout EXCEPT ![c] = [@ EXCEPT !.active = FALSE]]
    /\ listener' = removeListener(c)
    \* a dataHandler that is no listener any more is never called again:
    \* its buffer is unreachable
    /\ buffer' = [buffer EXCEPT ![c] =
                     IF \E w \in Workers : removeListener(c)[w] = <<c>>
                     THEN @ ELSE <<>>]
    /\ IF pc[c] = "pending"
       THEN Finish(c, catchError("Task execution timed out"))
       ELSE UNCHANGED <<pc, outcome>>
    /\ UNCHANGED <<executorProcess, proc, stdin, stdout, arg, target, waited,
                   written, noise>>
    /\ UNCHANGED nonBridgeVars

\* time passes until the next timeout is due
Tick ==
    LET due == {timeout[c].total - waited[c] : c \in {x \in Calls : timeout[x].active}}
    IN  /\ due # {}
        /\ SetMin(due) > 0
        /\ waited' = [c \in Calls |->
                         IF timeout[c].active THEN waited[c] + SetMin(due)
                         ELSE waited[c]]
        /\ UNCHANGED <<executorProcess, proc, stdin, stdout, listener, pc, arg,
                       target, buffer, timeout, outcome, written, noise>>
        /\ UNCHANGED nonBridgeVars

(* ---------------------------- specification --------------------------- *)
\* what the application, the renderer, the worker and the clock can do
Lifecycle ==
    \/ \E w \in Workers : startActionExecutor(w)
    \/ killActionExecutor
    \/ \E w \in Workers : onExit(w)

Submissions ==
    \/ \E c \in Calls, input \in Inputs : executeTasksNullish(c, input)
    \/ \E c \in Calls, input \in Inputs : executeTasksNotRunning(c, input)
    \/ \E c \in Calls, input \in Inputs : executeTasksInvalid(c, input)
    \/ \E c \in Calls, input \in Inputs : executeTaskBatchNoStreams(c, input)
    \/ \E c \in Calls, input \in Inputs : executeTaskBatch(c, input)
    \/ \E c \in Calls, input \in Inputs : executeTaskBatchWriteFails(c, input)

Worker ==
    \/ \E w \in Workers : WorkerRespond(w)
    \/ \E w \in Workers : WorkerLog(w)
    \/ \E w \in Workers : WorkerExit(w)

Timers ==
    \/ \E c \in Calls : onTimeout(c)
    \/ Tick

\* The whole application.  Each "data" event carries everything the worker
\* has printed so far.
Next ==
    \/ Lifecycle
    \/ Submissions
    \/ Worker
    \/ Timers
    \/ \E w \in Workers : onData(w, Len(stdout[w]))

Spec == Init /\ [][Next]_vars

\* Non-empty batches submitted to the first worker process, which prints
\* nothing but responses.
NextAccepted ==
    \/ startActionExecutor(1)
    \/ killActionExecutor
    \/ onExit(1)
    \/ \E c \in Calls, input \in ValidInputs : executeTasksNotRunning(c, input)
    \/ \E c \in Calls, input \in ValidInputs : executeTaskBatchNoStreams(c, input)
    \/ \E c \in Calls, input \in ValidInputs : executeTaskBatch(c, input)
    \/ \E c \in Calls, input \in ValidInputs : executeTaskBatchWriteFails(c, input)
    \/ WorkerRespond(1)
    \/ WorkerExit(1)
    \/ Timers
    \/ onData(1, Len(stdout[1]))

SpecAccepted == Init /\ [][NextAccepted]_vars

\* One request at a time to the first worker process, whose output is read
\* in chunks of any size.
NextChunks ==
    \/ startActionExecutor(1)
    \/ \E input \in ValidInputs : executeTaskBatch(1, input)
    \/ WorkerRespond(1)
    \/ WorkerLog(1)
    \/ \E k \in 1..Len(stdout[1]) : onData(1, k)
    \/ Timers

SpecChunks == Init /\ [][NextChunks]_vars

\* every earlier run was the same batch and ended with the worker's "ok"
AfterSuccessfulRuns(c, input) ==
    \A d \in Calls :
        d < c => /\ pc[d] = "done"
                 /\ outcome[d].via = "result"
                 /\ outcome[d].status = "ok"
                 /\ arg[d] = input

\* The same batch submitted again and again, each time after the run before
\* it has succeeded; the worker's output is read in chunks of any size.
NextResubmit ==
    \/ startActionExecutor(1)
    \/ \E c \in Calls, input \in ValidInputs :
          AfterSuccessfulRuns(c, input) /\ executeTaskBatch(c, input)
    \/ WorkerRespond(1)
    \/ WorkerLog(1)
    \/ \E k \in 1..Len(stdout[1]) : onData(1, k)
    \/ Timers

SpecResubmit == Init /\ [][NextResubmit]_vars

\* One batch of the planner, with dependencies, an approval flag and failure
\* policies, submitted to the first worker process, which reports the result
\* of each task.
NextTasks ==
    \/ startActionExecutor(1)
    \/ \E input \in PlanInputs : executeTasksNotRunning(1, input)
    \/ \E input \in PlanInputs : executeTaskBatch(1, input)
    \/ WorkerRunBatch(1)
    \/ onData(1, Len(stdout[1]))
    \/ Timers

SpecTasks == Init /\ [][NextTasks]_vars

(* ------------------------------ the renderer -------------------------- *)
\* handleTaskBatch() after `await window.electronApi.executeTasks(...)`:
\* status "ok" ends in onTaskBatchComplete(results), any other response and
\* a rejected call end in onTaskBatchError(message).  Nothing is emitted to
\* the socket on either path.
handleTaskBatch(c) ==
    /\ pc[c] = "done"
    /\ callback[c] = "none"
    /\ callback' = [callback EXCEPT ![c] =
                      IF outcome[c].kind = "returned" /\ outcome[c].status = "ok"
                      THEN "onTaskBatchComplete" ELSE "onTaskBatchError"]
    /\ UNCHANGED emitted
    /\ UNCHANGED nonRendererVars

\* A batch received with task:execute_batch, executed and reported
NextRenderer ==
    \/ startActionExecutor(1)
    \/ \E input \in PlanInputs : executeTasksNotRunning(1, input)
    \/ \E input \in PlanInputs : executeTaskBatch(1, input)
    \/ WorkerRunBatch(1)
    \/ onData(1, Len(stdout[1]))
    \/ Timers
    \/ handleTaskBatch(1)

SpecRenderer == Init /\ [][NextRenderer]_vars

(* --------------------------- token refresh ---------------------------- *)
\* String.prototype.includes, on messages written as tuples of words
includes(message, words) ==
    \E i \in 1..Len(message) :
        /\ i + Len(words) - 1 <= Len(message)
        /\ SubSeq(message, i, i + Len(words) - 1) = words

\* what the refresh endpoint may answer to fetch(): no answer at all, an
\* error status with or without a message in its body, or 200 with a body
\* that holds the two tokens or does not
Responses ==
    {[kind |-> "network", status |-> 0, message |-> <<"Failed", "to", "fetch">>, body |-> "none"]}
    \cup {[kind |-> "http", status |-> 401, message |-> m, body |-> "error"] :
            m \in {<<"Invalid", "refresh", "token">>, <<"Refresh", "token", "expired">>,
                   <<"Unauthorized">>, <<>>}}
    \cup {[kind |-> "http", status |-> 403, message |-> <<"Forbidden">>, body |-> "error"]}
    \cup {[kind |-> "http", status |-> 500, message |-> m, body |-> "error"] :
            m \in {<<"Internal", "server", "error">>, <<>>}}
    \cup {[kind |-> "http", status |-> 200, message |-> <<>>, body |-> b] :
            b \in {"tokens", "malformed"}}

\* the run a call of refreshAccessToken() would start
NextRun == Cardinality({n \in Runs : refresh[n].pc # "unborn"}) + 1

\* a refreshAccessToken() that starts a refresh of its own whatever is going on
refreshAccessTokenAlways(n) ==
    /\ n = NextRun
    /\ isRefreshing' = TRUE
    /\ refreshPromise' = n
    /\ refresh' = [refresh EXCEPT ![n].pc = "getToken"]

\* refreshAccessToken(), up to the first await of the run it starts: n is
\* the run whose promise is returned
refreshAccessToken(n) ==
    IF isRefreshing /\ refreshPromise # 0
    THEN /\ n = refreshPromise
         /\ UNCHANGED <<isRefreshing, refreshPromise, refresh>>
    ELSE /\ n = NextRun
         /\ isRefreshing' = TRUE
         /\ refreshPromise' = n
         /\ refresh' = [refresh EXCEPT ![n].pc = "getToken"]

\* processQueue(): settle every queued promise, empty the queue.  A resolved
\* promise continues with axiosInstance(originalRequest), a rejected one
\* with Promise.reject(...)
processQueue(ok) ==
    /\ req' = [r \in Requests |->
                 IF \E i \in 1..Len(failedQueue) : failedQueue[i] = r
                 THEN IF ok THEN [req[r] EXCEPT !.pc = "ready", !.resent = TRUE]
                      ELSE [req[r] EXCEPT !.pc = "rejected"]
                 ELSE req[r]]
    /\ failedQueue' = <<>>

shouldClearTokens(message) ==
    \/ includes(message, <<"Invalid">>)
    \/ includes(message, <<"expired">>)
    \/ includes(message, <<"No", "refresh", "token">>)

\* the catch block of the refresh up to its first await, or, when the
\* tokens are kept, up to the end of finally.  cause is what made the
\* refresh fail: "network" (no response), "server" (a 5xx status, or a 200
\* whose body does not hold the tokens), "auth" (status 401 or 403, or no
\* refresh token stored)
catchRefresh(n, message, cause) ==
    /\ processQueue(FALSE)
    /\ IF shouldClearTokens(message)
       THEN /\ refresh' = [refresh EXCEPT ![n] =
                             [@ EXCEPT !.pc = "deleteAccess", !.cause = cause]]
            /\ UNCHANGED <<isRefreshing, refreshPromise>>
       ELSE /\ refresh' = [refresh EXCEPT ![n] =
                             [@ EXCEPT !.pc = "rejected", !.cause = cause]]
            /\ isRefreshing' = FALSE
            /\ refreshPromise' = 0

\* the refresh after `await getToken("refresh_token")`
refreshGotToken(n) ==
    /\ refresh[n].pc = "getToken"
    /\ IF tokens.refresh_token = "none"
       THEN catchRefresh(n, <<"No", "refresh", "token", "found">>, "auth")
       ELSE /\ refresh' = [refresh EXCEPT ![n].pc = "fetch"]
            /\ UNCHANGED <<isRefreshing, refreshPromise, failedQueue, req>>
    /\ UNCHANGED tokens
    /\ UNCHANGED nonAuthVars

\* the refresh after `await fetch(...)` and `await response.json()`
refreshFetched(n, response) ==
    /\ refresh[n].pc = "fetch"
    /\ IF response.kind = "network"
       THEN catchRefresh(n, response.message, "network")
       ELSE IF response.status # 200
       THEN catchRefresh(n,
                IF response.message # <<>> THEN response.message
                ELSE <<"Failed", "to", "refresh", "token">>,
                IF response.status \in {401, 403} THEN "auth" ELSE "server")
       ELSE IF response.body = "malformed"
       THEN catchRefresh(n, <<"Invalid", "access", "token", "received">>, "server")
       ELSE /\ refresh' = [refresh EXCEPT ![n].pc = "saveAccess"]
            /\ UNCHANGED <<isRefreshing, refreshPromise, failedQueue, req>>
    /\ UNCHANGED tokens
    /\ UNCHANGED nonAuthVars

\* the refresh after `await saveToken("access_token", ...)`
refreshSavedAccess(n) ==
    /\ refresh[n].pc = "saveAccess"
    /\ tokens' = [tokens EXCEPT !.access_token = "valid"]
    /\ refresh' = [refresh EXCEPT ![n].pc = "saveRefresh"]
    /\ UNCHANGED <<isRefreshing, refreshPromise, failedQueue, req>>
    /\ UNCHANGED nonAuthVars

\* the refresh after `await saveToken("refresh_token", ...)`: processQueue,
\* return, finally
refreshSavedRefresh(n) ==
    /\ refresh[n].pc = "saveRefresh"
    /\ tokens' = [tokens EXCEPT !.refresh_token = "stored"]
    /\ processQueue(TRUE)
    /\ refresh' = [refresh EXCEPT ![n].pc = "resolved"]
    /\ isRefreshing' = FALSE
    /\ refreshPromise' = 0
    /\ UNCHANGED nonAuthVars

\* the refresh after `await deleteToken("access_token")`
refreshDeletedAccess(n) ==
    /\ refresh[n].pc = "deleteAccess"
    /\ tokens' = [tokens EXCEPT !.access_token = "none"]
    /\ refresh' = [refresh EXCEPT ![n].pc = "deleteRefresh"]
    /\ UNCHANGED <<isRefreshing, refreshPromise, failedQueue, req>>
    /\ UNCHANGED nonAuthVars

\* the refresh after `await deleteToken("refresh_token")`: toast, throw,
\* finally
refreshDeletedRefresh(n) ==
    /\ refresh[n].pc = "deleteRefresh"
    /\ tokens' = [tokens EXCEPT !.refresh_token = "none"]
    /\ refresh' = [refresh EXCEPT ![n] = [@ EXCEPT !.pc = "rejected", !.cleared = TRUE]]
    /\ isRefreshing' = FALSE
    /\ refreshPromise' = 0
    /\ UNCHANGED <<failedQueue, req>>
    /\ UNCHANGED nonAuthVars

\* the stored access token reaches the five minutes before its expiry
accessTokenExpires ==
    /\ tokens.access_token = "valid"
    /\ tokens' = [tokens EXCEPT !.access_token = "expired"]
    /\ UNCHANGED <<isRefreshing, refreshPromise, failedQueue, refresh, req>>
    /\ UNCHANGED nonAuthVars

(* ------------------------- the axios interceptors ---------------------- *)
Settled(n) == refresh[n].pc \in {"resolved", "rejected"}

\* request interceptor, getValidAccessToken() up to `await getToken(...)`
getValidAccessToken(r) ==
    /\ req[r].pc = "ready"
    /\ req' = [req EXCEPT ![r] = [@ EXCEPT !.pc = "gotToken", !.seen = tokens.access_token]]
    /\ UNCHANGED <<isRefreshing, refreshPromise, failedQueue, refresh, tokens>>
    /\ UNCHANGED nonAuthVars

\* getValidAccessToken() with a token that is valid, or with none (the
\* error is caught by the interceptor): the request is sent
requestSent(r) ==
    /\ req[r].pc = "gotToken"
    /\ req[r].seen \in {"valid", "none"}
    /\ req' = [req EXCEPT ![r] = [@ EXCEPT !.pc = "sent", !.seen = "none"]]
    /\ UNCHANGED <<isRefreshing, refreshPromise, failedQueue, refresh, tokens>>
    /\ UNCHANGED nonAuthVars

\* getValidAccessToken() with a token expired or expiring soon:
\* `return await this.refreshAccessToken()`
requestRefreshes(r) ==
    /\ req[r].pc = "gotToken"
    /\ req[r].seen = "expired"
    /\ \E n \in Runs :
          /\ refreshAccessToken(n)
          /\ req' = [req EXCEPT ![r] =
                       [@ EXCEPT !.pc = "awaitToken", !.seen = "none", !.awaits = n]]
    /\ UNCHANGED <<failedQueue, tokens>>
    /\ UNCHANGED nonAuthVars

\* the request interceptor after the refresh it awaited: the request is sent
\* with the new token, or, the error caught, as it is
requestSentAfterRefresh(r) ==
    /\ req[r].pc = "awaitToken"
    /\ Settled(req[r].awaits)
    /\ req' = [req EXCEPT ![r] = [@ EXCEPT !.pc = "sent", !.awaits = 0]]
    /\ UNCHANGED <<isRefreshing, refreshPromise, failedQueue, refresh, tokens>>
    /\ UNCHANGED nonAuthVars

\* a response that is no 401: the promise of the request is settled
respond(r, status) ==
    /\ req[r].pc = "sent"
    /\ status \in {200, 500}
    /\ req' = [req EXCEPT ![r].pc = IF status = 200 THEN "resolved" ELSE "rejected"]
    /\ UNCHANGED <<isRefreshing, refreshPromise, failedQueue, refresh, tokens>>
    /\ UNCHANGED nonAuthVars

\* response interceptor, status 401 while a refresh is going on and
\* _retry is not set: addToQueue()
respond401Queued(r) ==
    /\ req[r].pc = "sent"
    /\ ~req[r].retry
    /\ isRefreshing
    /\ failedQueue' = Append(failedQueue, r)
    /\ req' = [req EXCEPT ![r].pc = "queued"]
    /\ UNCHANGED <<isRefreshing, refreshPromise, refresh, tokens>>
    /\ UNCHANGED nonAuthVars

\* response interceptor, status 401 with no refresh going on and _retry
\* not set: _retry = true, refreshAccessToken()
respond401Refreshes(r) ==
    /\ req[r].pc = "sent"
    /\ ~req[r].retry
    /\ ~isRefreshing
    /\ \E n \in Runs :
          /\ refreshAccessToken(n)
          /\ req' = [req EXCEPT ![r] =
                       [@ EXCEPT !.pc = "awaitRefresh", !.retry = TRUE, !.awaits = n]]
    /\ UNCHANGED <<failedQueue, tokens>>
    /\ UNCHANGED nonAuthVars

\* response interceptor, status 401 with _retry set: the error is returned
respond401Rejected(r) ==
    /\ req[r].pc = "sent"
    /\ req[r].retry
    /\ req' = [req EXCEPT ![r].pc = "rejected"]
    /\ UNCHANGED <<isRefreshing, refreshPromise, failedQueue, refresh, tokens>>
    /\ UNCHANGED nonAuthVars

\* response interceptor after `await refreshAccessToken()`: the request is
\* passed to axiosInstance again, or the refresh error is returned
retryAfterRefresh(r) ==
    /\ req[r].pc = "awaitRefresh"
    /\ Settled(req[r].awaits)
    /\ req' = [req EXCEPT ![r] =
                 IF refresh[req[r].awaits].pc = "resolved"
                 THEN [@ EXCEPT !.pc = "ready", !.resent = TRUE, !.awaits = 0]
                 ELSE [@ EXCEPT !.pc = "rejected", !.awaits = 0]]
    /\ UNCHANGED <<isRefreshing, refreshPromise, failedQueue, refresh, tokens>>
    /\ UNCHANGED nonAuthVars

\* Requests of the renderer with an access token that expires, and the
\* refreshes they start
NextAuth ==
    \/ accessTokenExpires
    \/ \E r \in Requests : getValidAccessToken(r)
    \/ \E r \in Requests : requestSent(r)
    \/ \E r \in Requests : requestRefreshes(r)
    \/ \E r \in Requests : requestSentAfterRefresh(r)
    \/ \E r \in Requests, status \in {200, 500} : respond(r, status)
    \/ \E r \in Requests : respond401Queued(r)
    \/ \E r \in Requests : respond401Refreshes(r)
    \/ \E r \in Requests : respond401Rejected(r)
    \/ \E r \in Requests : retryAfterRefresh(r)
    \/ \E n \in Runs : refreshGotToken(n)
    \/ \E n \in Runs, response \in Responses : refreshFetched(n, response)
    \/ \E n \in Runs : refreshSavedAccess(n)
    \/ \E n \in Runs : refreshSavedRefresh(n)
    \/ \E n \in Runs : refreshDeletedAccess(n)
    \/ \E n \in Runs : refreshDeletedRefresh(n)

SpecAuth == Init /\ [][NextAuth]_vars

(* ---------------------------- SocketService --------------------------- *)
\* updateConnectionState(), called by the service itself (from 0) or by a
\* handler bound to socket `from`
updateConnectionState(connected, from) ==
    connectionState' = [connected |-> connected, from |-> from]

\* socket.removeAllListeners(); socket.disconnect()
removeAndDisconnect ==
    sock' = [sock EXCEPT ![socket] = "removed"]

\* connect() up to `await this.getAccessToken()`; calls are numbered in the
\* order in which they are made
connect(k) ==
    /\ conn[k] = "idle"
    /\ \A j \in Connects : j < k => conn[j] # "idle"
    /\ IF (socket # 0 /\ sock[socket] = "connected") \/ connecting
       THEN /\ conn' = [conn EXCEPT ![k] = "done"]
            /\ UNCHANGED connecting
       ELSE /\ conn' = [conn EXCEPT ![k] = "getAccessToken"]
            /\ connecting' = TRUE
    /\ UNCHANGED <<socket, connectionState, sock>>
    /\ UNCHANGED nonSocketVars

\* connect() from the token to `await import("socket.io-client")`: without
\* a token, or when getAccessToken() throws, the call gives up; with one,
\* the socket the service holds is stripped of its listeners and disconnected
connectGotToken(k, token) ==
    /\ conn[k] = "getAccessToken"
    /\ IF token \in {"null", "throws"}
       THEN /\ connecting' = FALSE
            /\ updateConnectionState(FALSE, 0)
            /\ conn' = [conn EXCEPT ![k] = "done"]
            /\ UNCHANGED sock
       ELSE /\ IF socket # 0 THEN removeAndDisconnect ELSE UNCHANGED sock
            /\ conn' = [conn EXCEPT ![k] = "import"]
            /\ UNCHANGED <<connecting, connectionState>>
    /\ UNCHANGED socket
    /\ UNCHANGED nonSocketVars

\* connect() after the import: io(...), this.socket = newSocket,
\* bindSocketEvents(newSocket), newSocket.connect()
connectImported(k) ==
    /\ conn[k] = "import"
    /\ socket' = k
    /\ sock' = [sock EXCEPT ![k] = "bound"]
    /\ conn' = [conn EXCEPT ![k] = "done"]
    /\ UNCHANGED <<connecting, connectionState>>
    /\ UNCHANGED nonSocketVars

\* disconnect()
disconnect ==
    /\ connecting' = FALSE
    /\ IF socket # 0
       THEN removeAndDisconnect /\ socket' = 0
       ELSE UNCHANGED <<sock, socket>>
    /\ updateConnectionState(FALSE, 0)
    /\ UNCHANGED conn
    /\ UNCHANGED nonSocketVars

\* the "connect" handler bound to socket s
onConnect(s) ==
    /\ sock[s] = "bound"
    /\ sock' = [sock EXCEPT ![s] = "connected"]
    /\ connecting' = FALSE
    /\ updateConnectionState(TRUE, s)
    /\ UNCHANGED <<socket, conn>>
    /\ UNCHANGED nonSocketVars

\* the "disconnect" handler bound to socket s: the server or the transport
\* has closed the connection, the socket will try to reconnect
onDisconnect(s) ==
    /\ sock[s] = "connected"
    /\ sock' = [sock EXCEPT ![s] = "bound"]
    /\ connecting' = FALSE
    /\ updateConnectionState(FALSE, s)
    /\ UNCHANGED <<socket, conn>>
    /\ UNCHANGED nonSocketVars

\* the "connect_error" handler bound to socket s
onConnectError(s) ==
    /\ sock[s] = "bound"
    /\ connecting' = FALSE
    /\ updateConnectionState(FALSE, s)
    /\ UNCHANGED <<socket, conn, sock>>
    /\ UNCHANGED nonSocketVars

\* connect() and disconnect() called in any order while earlier calls of
\* connect() are still waiting, and the events of the sockets
NextSocket ==
    \/ \E k \in Connects : connect(k)
    \/ \E k \in Connects, token \in {"token", "null", "throws"} : connectGotToken(k, token)
    \/ \E k \in Connects : connectImported(k)
    \/ disconnect
    \/ \E s \in Connects : onConnect(s)
    \/ \E s \in Connects : onDisconnect(s)
    \/ \E s \in Connects : onConnectError(s)

SpecSocket == Init /\ [][NextSocket]_vars

(* --------------------------- SparkTTSProvider ------------------------- *)
\* the refs of the provider as one record, for the functions that call
\* each other within one handler
Refs ==
    [activeStreamId |-> activeStreamId, chunkQueue |-> chunkQueue,
     pendingStreams |-> pendingStreams, audioElement |-> audioElement,
     isPlayingChunk |-> isPlayingChunk, stopped |-> stopped,
     currentStreamEnded |-> currentStreamEnded,
     lastAudioEndTime |-> lastAudioEndTime, audio |-> audio,
     delayTimers |-> delayTimers]

\* the refs after a handler has run
Becomes(r) ==
    /\ activeStreamId' = r.activeStreamId
    /\ chunkQueue' = r.chunkQueue
    /\ pendingStreams' = r.pendingStreams
    /\ audioElement' = r.audioElement
    /\ isPlayingChunk' = r.isPlayingChunk
    /\ stopped' = r.stopped
    /\ currentStreamEnded' = r.currentStreamEnded
    /\ lastAudioEndTime' = r.lastAudioEndTime
    /\ audio' = r.audio
    /\ delayTimers' = r.delayTimers

\* a playNextChunk() that leaves the previous Audio as it is
cleanupPreviousSkipped(r, playPending) == r.audio

\* playNextChunk(), "force cleanup previous audio": the previous Audio is
\* paused and loses onended and onerror.  The handler of its play() promise
\* stays: when that promise is still pending (playPending) it is rejected
\* later.
cleanupPrevious(r, playPending) ==
    IF r.audioElement = NoAudio THEN r.audio
    ELSE [r.audio EXCEPT ![r.audioElement] =
            IF @ = "playing" /\ playPending THEN "stale" ELSE "none"]

RECURSIVE playNextChunk(_, _, _)
RECURSIVE moveToNextStream(_, _, _)

\* playNextChunk().  soon: the last audio has ended less than 30 ms ago;
\* playPending: see cleanupPrevious
playNextChunk(r, soon, playPending) ==
    IF r.stopped THEN r
    ELSE IF r.isPlayingChunk THEN r
    ELSE IF r.chunkQueue # <<>>
    THEN [r EXCEPT !.chunkQueue = Tail(@),
                   !.audio = [cleanupPrevious(r, playPending)
                                 EXCEPT ![Head(r.chunkQueue)] = "playing"],
                   !.audioElement = Head(r.chunkQueue),
                   !.isPlayingChunk = TRUE]
    ELSE IF r.currentStreamEnded THEN moveToNextStream(r, soon, playPending)
    ELSE r

\* moveToNextStream()
moveToNextStream(r, soon, playPending) ==
    IF r.pendingStreams = <<>>
    THEN [r EXCEPT !.activeStreamId = 0, !.currentStreamEnded = FALSE]
    ELSE LET next == Head(r.pendingStreams)
             moved == [r EXCEPT !.activeStreamId = next.streamId,
                                !.chunkQueue = next.chunks,
                                !.currentStreamEnded = next.ended,
                                !.pendingStreams = Tail(@)]
         IN  IF soon
             THEN [moved EXCEPT !.delayTimers = @ + 1]
             ELSE IF ~moved.isPlayingChunk
                  THEN playNextChunk(moved, soon, playPending)
                  ELSE moved

\* whether `Date.now() - lastAudioEndTimeRef.current < 30` can be true
Soon ==
    IF lastAudioEndTime = 0 \/ pendingStreams = <<>> THEN {FALSE} ELSE BOOLEAN

\* whether the play() promise of the Audio being cleaned up is still
\* pending; it matters only when an Audio is playing
PlayPending ==
    IF \E ch \in Chunks : audio[ch] = "playing" THEN BOOLEAN ELSE {FALSE}

\* the body of audio.onended, of audio.onerror and of the catch of
\* audio.play(); lastAudioEndTime is set to now, so a moveToNextStream()
\* reached from here takes the micro-delay
audioOver(ch, playPending) ==
    LET r == [Refs EXCEPT !.audio = [@ EXCEPT ![ch] = "none"],
                          !.isPlayingChunk = FALSE,
                          !.lastAudioEndTime = 1]
    IN  Becomes(IF ~r.stopped THEN playNextChunk(r, TRUE, playPending) ELSE r)

\* audio.onended of the Audio of chunk ch
onended(ch) ==
    /\ audio[ch] = "playing"
    /\ \E playPending \in PlayPending : audioOver(ch, playPending)
    /\ UNCHANGED <<resetTimers, stops, delivered>>
    /\ UNCHANGED nonTtsVars

\* audio.onerror, or the rejection of audio.play(), of the Audio of chunk
\* ch: while it plays, or after stop() has paused it and emptied its src
\* (stop() leaves the handlers on the Audio).  Timers and media events come
\* from different task sources: their order is not fixed.
onerror(ch) ==
    /\ audio[ch] \in {"playing", "stale"}
    /\ \E playPending \in PlayPending : audioOver(ch, playPending)
    /\ UNCHANGED <<resetTimers, stops, delivered>>
    /\ UNCHANGED nonTtsVars

\* the micro-delay timeout of moveToNextStream()
delayedPlay ==
    /\ delayTimers > 0
    /\ \E soon \in Soon, playPending \in PlayPending :
          LET r == [Refs EXCEPT !.delayTimers = @ - 1]
          IN  Becomes(IF ~r.isPlayingChunk /\ ~r.stopped
                      THEN playNextChunk(r, soon, playPending) ELSE r)
    /\ UNCHANGED <<resetTimers, stops, delivered>>
    /\ UNCHANGED nonTtsVars

\* stop()
stop ==
    /\ stops < MaxStops
    /\ stops' = stops + 1
    /\ stopped' = TRUE
    /\ audio' = IF audioElement = NoAudio THEN audio
                ELSE [audio EXCEPT ![audioElement] = "stale"]
    /\ audioElement' = NoAudio
    /\ chunkQueue' = <<>>
    /\ pendingStreams' = <<>>
    /\ activeStreamId' = 0
    /\ isPlayingChunk' = FALSE
    /\ currentStreamEnded' = FALSE
    /\ resetTimers' = resetTimers + 1
    /\ UNCHANGED <<lastAudioEndTime, delayTimers, delivered>>
    /\ UNCHANGED nonTtsVars

\* the 100 ms timeout of stop()
resetStopped ==
    /\ resetTimers > 0
    /\ resetTimers' = resetTimers - 1
    /\ stopped' = FALSE
    /\ UNCHANGED <<activeStreamId, chunkQueue, pendingStreams, audioElement,
                   isPlayingChunk, currentStreamEnded, lastAudioEndTime, audio,
                   delayTimers, stops, delivered>>
    /\ UNCHANGED nonTtsVars

\* the position of stream st in pendingStreams (0: none)
find(pending, st) ==
    IF \E i \in 1..Len(pending) : pending[i].streamId = st
    THEN CHOOSE i \in 1..Len(pending) :
            /\ pending[i].streamId = st
            /\ \A j \in 1..(i - 1) : pending[j].streamId # st
    ELSE 0

\* handleStart: "tts-start" of stream st
handleStart(st) ==
    /\ ~delivered[st].start
    /\ delivered' = [delivered EXCEPT ![st].start = TRUE]
    /\ IF stopped
       THEN UNCHANGED <<activeStreamId, chunkQueue, currentStreamEnded, pendingStreams>>
       ELSE IF activeStreamId = 0
       THEN /\ activeStreamId' = st
            /\ chunkQueue' = <<>>
            /\ currentStreamEnded' = FALSE
            /\ UNCHANGED pendingStreams
       ELSE /\ pendingStreams' =
                  Append(pendingStreams, [streamId |-> st, chunks |-> <<>>, ended |-> FALSE])
            /\ UNCHANGED <<activeStreamId, chunkQueue, currentStreamEnded>>
    /\ UNCHANGED <<audioElement, isPlayingChunk, stopped, lastAudioEndTime, audio,
                   delayTimers, resetTimers, stops>>
    /\ UNCHANGED nonTtsVars

\* the number of tts-chunk events delivered so far for the streams of S
RECURSIVE chunksDelivered(_)
chunksDelivered(S) ==
    IF S = {} THEN 0
    ELSE LET st == CHOOSE u \in S : TRUE
         IN  delivered[st].chunks + chunksDelivered(S \ {st})

\* handleChunk: the next "tts-chunk" of stream st
handleChunk(st) ==
    /\ chunksDelivered(Streams) < MaxChunks
    /\ delivered' = [delivered EXCEPT ![st].chunks = @ + 1]
    /\ LET bytes == <<st, delivered[st].chunks + 1>>
           i == find(pendingStreams, st)
       IN  IF stopped THEN Becomes(Refs)
           ELSE IF st = activeStreamId
           THEN \E soon \in Soon, playPending \in PlayPending :
                   LET r == [Refs EXCEPT !.chunkQueue = Append(@, bytes)]
                   IN  Becomes(IF ~r.isPlayingChunk
                               THEN playNextChunk(r, soon, playPending) ELSE r)
           ELSE IF i # 0
           THEN Becomes([Refs EXCEPT !.pendingStreams[i].chunks = Append(@, bytes)])
           ELSE Becomes([Refs EXCEPT !.pendingStreams =
                           Append(@, [streamId |-> st, chunks |-> <<bytes>>,
                                      ended |-> FALSE])])
    /\ UNCHANGED <<resetTimers, stops>>
    /\ UNCHANGED nonTtsVars

\* handleEnd: "tts-end" of stream st
handleEnd(st) ==
    /\ ~delivered[st].end
    /\ delivered' = [delivered EXCEPT ![st].end = TRUE]
    /\ LET i == find(pendingStreams, st)
       IN  IF st = activeStreamId
           THEN \E soon \in Soon, playPending \in PlayPending :
                   LET r == [Refs EXCEPT !.currentStreamEnded = TRUE]
                   IN  Becomes(IF r.chunkQueue = <<>> /\ ~r.isPlayingChunk
                               THEN moveToNextStream(r, soon, playPending) ELSE r)
           ELSE IF i # 0
           THEN Becomes([Refs EXCEPT !.pendingStreams[i].ended = TRUE])
           ELSE Becomes(Refs)
    /\ UNCHANGED <<resetTimers, stops>>
    /\ UNCHANGED nonTtsVars

\* the server sends the streams one after the other, each as tts-start, its
\* tts-chunks, tts-end
InOrder(st, event) ==
    CASE event = "tts-start" -> \A u \in Streams : u < st => delivered[u].end
      [] event = "tts-chunk" -> delivered[st].start /\ ~delivered[st].end
      [] event = "tts-end" -> delivered[st].start

\* Streams that arrive in order, played, and stopped by the user
NextTTS ==
    \/ \E st \in Streams : InOrder(st, "tts-start") /\ handleStart(st)
    \/ \E st \in Streams : InOrder(st, "tts-chunk") /\ handleChunk(st)
    \/ \E st \in Streams : InOrder(st, "tts-end") /\ handleEnd(st)
    \/ \E ch \in Chunks : onended(ch)
    \/ \E ch \in Chunks : onerror(ch)
    \/ delayedPlay
    \/ stop
    \/ resetStopped

SpecTTS == Init /\ [][NextTTS]_vars

\* Stream ids are names the server gives: a stream is named by the order in
\* which its first event arrives, whatever that event is
Named(st) ==
    \A u \in Streams :
        u < st => (delivered[u].start \/ delivered[u].end \/ delivered[u].chunks > 0)

\* The events of the streams in any order
NextTTSAnyOrder ==
    \/ \E st \in Streams : Named(st) /\ handleStart(st)
    \/ \E st \in Streams : Named(st) /\ handleChunk(st)
    \/ \E st \in Streams : Named(st) /\ handleEnd(st)
    \/ \E ch \in Chunks : onended(ch)
    \/ \E ch \in Chunks : onerror(ch)
    \/ delayedPlay
    \/ stop
    \/ resetStopped

SpecTTSAnyOrder == Init /\ [][NextTTSAnyOrder]_vars

(* ------------------------- the voice input ---------------------------- *)
\* the refs of AudioInput, and what is outside it: timers, recorders,
\* messages emitted
Mic ==
    [streamRef |-> streamRef, speakingSamplesRef |-> speakingSamplesRef,
     isSpeakingRef |-> isSpeakingRef, silenceTimeoutRef |-> silenceTimeoutRef,
     isRecordingRef |-> isRecordingRef, isProcessingRef |-> isProcessingRef,
     processingTimeoutRef |-> processingTimeoutRef, timeouts |-> timeouts,
     sessionIdRef |-> sessionIdRef, seqRef |-> seqRef,
     mediaRecorderRef |-> mediaRecorderRef, chunkTimerRef |-> chunkTimerRef,
     chunkTimers |-> chunkTimers, recorder |-> recorder, sessions |-> sessions,
     segments |-> segments, userSpeaking |-> userSpeaking,
     userStopSpeaking |-> userStopSpeaking,
     stopListeningAwaits |-> stopListeningAwaits]

\* the handler leaves the component in state m; a run creates at most
\* MaxSessions sessions and MaxSegments recorders
MicBecomes(m) ==
    /\ m.sessions <= MaxSessions
    /\ m.segments <= MaxSegments
    /\ streamRef' = m.streamRef
    /\ speakingSamplesRef' = m.speakingSamplesRef
    /\ isSpeakingRef' = m.isSpeakingRef
    /\ silenceTimeoutRef' = m.silenceTimeoutRef
    /\ isRecordingRef' = m.isRecordingRef
    /\ isProcessingRef' = m.isProcessingRef
    /\ processingTimeoutRef' = m.processingTimeoutRef
    /\ timeouts' = m.timeouts
    /\ sessionIdRef' = m.sessionIdRef
    /\ seqRef' = m.seqRef
    /\ mediaRecorderRef' = m.mediaRecorderRef
    /\ chunkTimerRef' = m.chunkTimerRef
    /\ chunkTimers' = m.chunkTimers
    /\ recorder' = m.recorder
    /\ sessions' = m.sessions
    /\ segments' = m.segments
    /\ userSpeaking' = m.userSpeaking
    /\ userStopSpeaking' = m.userStopSpeaking
    /\ stopListeningAwaits' = m.stopListeningAwaits
    /\ UNCHANGED nonMicVars

\* recorder rec of m is put into state st
setRecorder(m, rec, st) ==
    [m EXCEPT !.recorder = [x \in Recorders |-> IF x = rec THEN st ELSE @[x]]]

\* finalizeSession(sessionId), called with sessionIdRef.current; connected
\* is `socket && isConnected` as the closure holds it
finalizeSessionWithoutTimeout(m, connected) ==
    IF ~connected \/ m.isProcessingRef THEN m
    ELSE [m EXCEPT !.isProcessingRef = TRUE,
                   !.userStopSpeaking = m.sessionIdRef]

finalizeSession(m, connected) ==
    IF ~connected THEN m
    ELSE IF m.isProcessingRef THEN m
    ELSE [m EXCEPT !.isProcessingRef = TRUE,
                   !.processingTimeoutRef = m.sessionIdRef,
                   !.timeouts = @ \cup {m.sessionIdRef},
                   !.userStopSpeaking = m.sessionIdRef]

\* handleRecordingFinished(); short: the recording lasted less than
\* MIN_RECORDING_DURATION_MS
handleRecordingFinished(m, short, connected) ==
    LET done == IF ~short /\ m.sessionIdRef # 0 /\ m.seqRef > 0
                THEN finalizeSession(m, connected) ELSE m
    IN  [done EXCEPT !.sessionIdRef = 0, !.seqRef = 0, !.mediaRecorderRef = 0]

\* startSegmentRecorder(): a new recorder is started and its stop scheduled
startSegmentRecorder(m) ==
    IF ~m.streamRef \/ ~m.isRecordingRef THEN m
    ELSE LET rec == m.segments + 1
         IN  [setRecorder(m, rec, "recording") EXCEPT
                  !.segments = rec,
                  !.mediaRecorderRef = rec,
                  !.chunkTimerRef = rec,
                  !.chunkTimers = @ \cup {rec}]

\* startRecording()
startRecordingUnlocked(m) ==
    IF ~m.streamRef \/ m.isRecordingRef THEN m
    ELSE startSegmentRecorder([m EXCEPT !.sessions = @ + 1,
                                        !.sessionIdRef = m.sessions + 1,
                                        !.seqRef = 0,
                                        !.isRecordingRef = TRUE])

startRecording(m) ==
    IF ~m.streamRef \/ m.isRecordingRef \/ m.isProcessingRef THEN m
    ELSE startSegmentRecorder([m EXCEPT !.sessions = @ + 1,
                                        !.sessionIdRef = m.sessions + 1,
                                        !.seqRef = 0,
                                        !.isRecordingRef = TRUE])

\* stopRecording()
stopRecording(m, short, connected) ==
    IF ~m.isRecordingRef THEN m
    ELSE LET a == [m EXCEPT !.isRecordingRef = FALSE,
                            !.chunkTimers = @ \ {m.chunkTimerRef},
                            !.chunkTimerRef = 0]
             rec == m.mediaRecorderRef
         IN  IF rec # 0 /\ m.recorder[rec] = "recording"
             THEN setRecorder(a, rec, "stopping")
             ELSE handleRecordingFinished(a, short, connected)

\* the body of handleVoiceActivity for a frame above SPEAKING_THRESHOLD
speechFrameUnlocked(m) ==
    LET n == IF m.speakingSamplesRef < SPEAKING_CONFIRMATION_SAMPLES
             THEN m.speakingSamplesRef + 1 ELSE m.speakingSamplesRef
        a == [m EXCEPT !.speakingSamplesRef = n]
        b == IF n >= SPEAKING_CONFIRMATION_SAMPLES /\ ~a.isSpeakingRef
             THEN LET c == [a EXCEPT !.isSpeakingRef = TRUE,
                                     !.silenceTimeoutRef = FALSE]
                  IN  IF ~c.isRecordingRef THEN startRecordingUnlocked(c) ELSE c
             ELSE a
    IN  IF b.isSpeakingRef THEN [b EXCEPT !.silenceTimeoutRef = TRUE] ELSE b

speechFrame(m) ==
    LET n == IF m.speakingSamplesRef < SPEAKING_CONFIRMATION_SAMPLES
             THEN m.speakingSamplesRef + 1 ELSE m.speakingSamplesRef
        a == [m EXCEPT !.speakingSamplesRef = n]
        b == IF n >= SPEAKING_CONFIRMATION_SAMPLES /\ ~a.isSpeakingRef
             THEN LET c == [a EXCEPT !.isSpeakingRef = TRUE,
                                     !.silenceTimeoutRef = FALSE]
                  IN  IF ~c.isRecordingRef THEN startRecording(c) ELSE c
             ELSE a
    IN  IF b.isSpeakingRef THEN [b EXCEPT !.silenceTimeoutRef = TRUE] ELSE b

\* the body of handleVoiceActivity for a frame at or below SPEAKING_THRESHOLD
quietFrame(m, level) ==
    LET a == [m EXCEPT !.speakingSamplesRef = 0]
    IN  IF level = "silence" /\ a.isSpeakingRef /\ ~a.silenceTimeoutRef
        THEN [a EXCEPT !.silenceTimeoutRef = TRUE] ELSE a

\* handleVoiceActivity(level), called for every animation frame while the
\* analyser is set
handleVoiceActivityUnlocked(level) ==
    /\ streamRef
    /\ MicBecomes(IF level = "speech" THEN speechFrameUnlocked(Mic)
                  ELSE quietFrame(Mic, level))

handleVoiceActivity(level) ==
    /\ streamRef
    /\ MicBecomes(IF isProcessingRef THEN [Mic EXCEPT !.speakingSamplesRef = 0]
                  ELSE IF level = "speech" THEN speechFrame(Mic)
                  ELSE quietFrame(Mic, level))

\* what handleRecordingFinished() may find when a handler reaches it
\* (finishing), as <<short, connected>>: the recording was too short, or
\* it was long enough and the socket is or is not connected
FinishCases(finishing) ==
    IF finishing /\ sessionIdRef # 0
    THEN {<<TRUE, FALSE>>, <<FALSE, FALSE>>, <<FALSE, TRUE>>}
    ELSE {<<FALSE, FALSE>>}

\* stopRecording() would stop no recorder and finish the session itself
StopsNone ==
    /\ isRecordingRef
    /\ ~(mediaRecorderRef # 0 /\ recorder[mediaRecorderRef] = "recording")

\* handleSilenceDetected: the silence timeout fires
handleSilenceDetected ==
    /\ silenceTimeoutRef
    /\ \E f \in FinishCases(StopsNone) :
          LET short == f[1]
              connected == f[2]
              a == [Mic EXCEPT !.isSpeakingRef = FALSE,
                               !.speakingSamplesRef = 0,
                               !.silenceTimeoutRef = FALSE]
          IN  MicBecomes(IF a.isRecordingRef
                         THEN stopRecording(a, short, connected) ELSE a)

\* the timeout startSegmentRecorder() scheduled for recorder rec fires
chunkTimeout(rec) ==
    /\ rec \in chunkTimers
    /\ LET a == [Mic EXCEPT !.chunkTimers = @ \ {rec}]
       IN  MicBecomes(IF recorder[rec] = "recording"
                      THEN setRecorder(a, rec, "stopping") ELSE a)

\* the end of recorder.onstop: the next segment, or the end of the session
afterSend(m, short, connected) ==
    IF m.isRecordingRef THEN startSegmentRecorder(m)
    ELSE handleRecordingFinished(m, short, connected)

\* recorder.onstop of recorder rec, up to `await blobToArrayBuffer(blob)`;
\* big: blob.size >= MIN_CHUNK_SIZE_BYTES
onstop(rec) ==
    /\ recorder[rec] = "stopping"
    /\ \E big \in IF sessionIdRef # 0 THEN BOOLEAN ELSE {FALSE},
          f \in FinishCases(~isRecordingRef) :
          MicBecomes(IF big /\ sessionIdRef # 0
                     THEN setRecorder(Mic, rec, "reading")
                     ELSE afterSend(setRecorder(Mic, rec, "none"),
                                    f[1], f[2]))

\* recorder.onstop of recorder rec, after the await: the chunk is emitted
\* with the session id and sequence number the refs hold now
onstopSend(rec) ==
    /\ recorder[rec] = "reading"
    /\ \E f \in FinishCases(~isRecordingRef) :
          LET short == f[1]
              connected == f[2]
              a == [setRecorder(Mic, rec, "none") EXCEPT
                        !.seqRef = @ + 1,
                        !.userSpeaking = sessionIdRef]
          IN  MicBecomes(afterSend(a, short, connected))

\* recorder.onerror of recorder rec: the recorder has stopped with an
\* error, its stop event follows
onrecordererror(rec) ==
    /\ recorder[rec] = "recording"
    /\ LET a == setRecorder(Mic, rec, "stopping")
       IN  MicBecomes(IF a.isRecordingRef THEN startSegmentRecorder(a) ELSE a)

\* the safety timeout set by finalizeSession() for session id fires
processingTimedOut(id) ==
    /\ id \in timeouts
    /\ MicBecomes([Mic EXCEPT !.timeouts = @ \ {id}, !.isProcessingRef = FALSE])

\* resetProcessing: "query-result", "tts-end", "query-error" or "error"
resetProcessing ==
    MicBecomes([Mic EXCEPT !.timeouts = @ \ {processingTimeoutRef},
                           !.processingTimeoutRef = 0,
                           !.isProcessingRef = FALSE])

\* startListening(): the stream is opened and the analyser set up
startListening ==
    /\ ~streamRef
    /\ ~stopListeningAwaits
    /\ MicBecomes([Mic EXCEPT !.streamRef = TRUE])

\* stopListening() after its wait, or without it
stopListeningRest(m) ==
    [m EXCEPT !.chunkTimers = @ \ {m.chunkTimerRef},
              !.chunkTimerRef = 0,
              !.silenceTimeoutRef = FALSE,
              !.isRecordingRef = FALSE,
              !.isSpeakingRef = FALSE,
              !.speakingSamplesRef = 0,
              !.streamRef = FALSE,
              !.stopListeningAwaits = FALSE]

\* stopListening(), up to its 300 ms wait when a recording is going on
stopListening ==
    /\ streamRef
    /\ ~stopListeningAwaits
    /\ \E f \in FinishCases(StopsNone) :
          LET short == f[1]
              connected == f[2]
          IN
          MicBecomes(IF isRecordingRef
                     THEN [stopRecording(Mic, short, connected) EXCEPT
                               !.stopListeningAwaits = TRUE]
                     ELSE stopListeningRest(Mic))

\* stopListening() after the wait
stopListeningWaited ==
    /\ stopListeningAwaits
    /\ MicBecomes(stopListeningRest(Mic))

NextMic ==
    \/ \E level \in Levels : handleVoiceActivity(level)
    \/ handleSilenceDetected
    \/ \E rec \in Recorders : chunkTimeout(rec)
    \/ \E rec \in Recorders : onstop(rec)
    \/ \E rec \in Recorders : onstopSend(rec)
    \/ \E rec \in Recorders : onrecordererror(rec)
    \/ \E id \in Sessions : processingTimedOut(id)
    \/ resetProcessing
    \/ startListening
    \/ stopListening
    \/ stopListeningWaited

\* timers that are set fire: the safety timeout is not starved
SpecMic ==
    /\ Init
    /\ [][NextMic]_vars
    /\ WF_vars(\E id \in Sessions : processingTimedOut(id))

(* ------------------------------- claims ------------------------------- *)
\* a request written to a worker and not yet answered, failed or timed out
Outstanding(c) == pc[c] = "pending" /\ target[c] # 0

\* the timeout callback of call c has run
TimedOut(c) == ~timeout[c].active /\ timeout[c].total > 0

\* the submission of call c was a non-empty array made while the handle was set
WasAccepted(c) ==
    /\ pc[c] # "idle"
    /\ arg[c] \in ValidInputs
    /\ outcome[c].via # "check"

\* the newline-terminated lines of a text
CompleteLines(text) ==
    {SubSeq(text, a, b - 1) :
        <<a, b>> \in {p \in (1..Len(text)) \X (1..Len(text)) :
                        /\ p[1] <= p[2]
                        /\ text[p[2]] = "\n"
                        /\ (p[1] = 1 \/ text[p[1] - 1] = "\n")
                        /\ \A i \in p[1]..(p[2] - 1) : text[i] # "\n"}}

\* the text is one or more complete lines, each of them a valid response
OnlyResponses(text) ==
    /\ text # <<>>
    /\ text[Len(text)] = "\n"
    /\ \A line \in CompleteLines(text) : JSONparse(line).ok

\* C1: at most one request is outstanding per worker process at any time.
C1_OneOutstandingPerWorker ==
    \A w \in Workers :
        Cardinality({c \in Calls : Outstanding(c) /\ target[c] = w}) <= 1

\* C2: every response returned to a caller is the worker's response to that
\* caller's own request.
C2_ResponseIsOwn ==
    \A c \in Calls :
        (pc[c] = "done" /\ outcome[c].via = "result")
            => (outcome[c].results # <<>> /\ outcome[c].results[1] = IdChar[c])

\* C3: once the exit of a worker process has been handled, no request written
\* to that worker is still outstanding (it has been failed as WorkerUnavailable).
C3_ExitFailsOutstanding ==
    \A c \in Calls : Outstanding(c) => proc[target[c]] # "reaped"

\* C4: when the batch timeout of a request has expired, the caller has been
\* given an error result in which no task is reported as successful.
C4_TimeoutReportsFailure ==
    \A c \in Calls :
        TimedOut(c) =>
            /\ pc[c] = "done"
            /\ outcome[c].kind = "returned"
            /\ outcome[c].status = "error"
            /\ outcome[c].results = <<>>

C4_Witness ==
    \E c \in Calls :
        /\ TimedOut(c)
        /\ pc[c] = "done"
        /\ outcome[c].message = "Task execution timed out"
        /\ Len(arg[c].tasks) = 2

\* C5: the timeout of a batch of n tasks is set to min(n x 30000, 300000) ms
\* whatever the tasks' timeoutMs, and a request is failed for timeout only
\* after it has waited that long.
BatchTimeout(n) ==
    IF n * 30000 <= 300000 THEN n * 30000 ELSE 300000

C5_BatchTimeout ==
    \A c \in Calls :
        /\ timeout[c].total > 0
              => timeout[c].total = BatchTimeout(Len(arg[c].tasks))
        /\ (pc[c] = "done" /\ outcome[c].message = "Task execution timed out")
              => waited[c] >= BatchTimeout(Len(arg[c].tasks))

C5_Witness ==
    \E c \in Calls :
        /\ pc[c] = "done"
        /\ outcome[c].message = "Task execution timed out"
        /\ Len(arg[c].tasks) = LongBatch
        /\ arg[c].tasks[1].timeoutMs < waited[c]
        /\ waited[c] = 300000

\* C6: an accepted submission never ends in an exception: the handler
\* returns a result object with a result list.
C6_AcceptedNeverThrows ==
    \A c \in Calls :
        (WasAccepted(c) /\ pc[c] = "done")
            => (outcome[c].kind = "returned" /\ outcome[c].results \in Seq(BodyChars))

C6_Witness ==
    \E c, d \in Calls :
        /\ WasAccepted(c) /\ pc[c] = "done"
        /\ outcome[c].message = "Failed to write to executor"
        /\ WasAccepted(d) /\ pc[d] = "done"
        /\ outcome[d].via = "result"
        /\ outcome[d].status = "error"

\* C7: an empty or malformed submission is rejected with an error result
\* (invalid batch, or no worker) and leaves no trace: nothing written, no
\* listener, no timeout.
C7_InvalidRejectedCleanly ==
    \A c \in Calls :
        (pc[c] # "idle" /\ arg[c] \in InvalidInputs) =>
            /\ pc[c] = "done"
            /\ outcome[c].kind = "returned"
            /\ outcome[c].status = "error"
            /\ outcome[c].message \in
                  {"Invalid tasks input - expected non-empty array",
                   "Action Executor process is not running"}
            /\ target[c] = 0
            /\ timeout[c] = NoTimer
            /\ \A w \in Workers :
                  listener[w] # <<c>> /\ \A i \in 1..Len(stdin[w]) : stdin[w][i].call # c

\* C8: no request keeps waiting on output that holds a complete line which is
\* not a valid response (such output is reported as MalformedResponse).
C8_MalformedRejected ==
    \A c \in Calls :
        pc[c] = "pending" =>
            \A line \in CompleteLines(buffer[c]) : JSONparse(line).ok

\* C9: a request is not left waiting on output that consists of complete
\* response messages, one or several: it is completed with the first.
C9_FirstMessageCompletes ==
    \A c \in Calls : pc[c] = "pending" => ~OnlyResponses(buffer[c])

\* C10: a response delivered to the caller has the content of the message the
\* worker wrote, however its bytes were split across reads.
C10_SplitReadsPreserveContent ==
    \A c \in Calls :
        (pc[c] = "done" /\ outcome[c].via = "result")
            => outcome[c].results = written[c]

\* the process the handle names has exited or crashed, or the handle was
\* cleared by killActionExecutor() or by the "exit" listener
WorkerGone ==
    IF executorProcess = 0
    THEN \E w \in Workers : proc[w] \in {"dead", "reaped"}
    ELSE proc[executorProcess] \in {"dead", "reaped"}

\* C11: a batch submitted after the worker process has exited, crashed or
\* been killed finds isActionExecutorRunning() false and is refused with an
\* error result, nothing being written to a worker stream.
C11_UnavailabilityObservable ==
    [][\A c \in Calls :
          (pc[c] = "idle" /\ pc'[c] # "idle" /\ arg'[c] \in ValidInputs /\ WorkerGone)
              => /\ ~isActionExecutorRunning
                 /\ pc'[c] = "done"
                 /\ outcome'[c].kind = "returned"
                 /\ outcome'[c].status = "error"
                 /\ target'[c] = 0
                 /\ stdin' = stdin]_vars

\* the worker has run the batch of call c and reported every task completed
AllTasksSucceeded(c) == written[c] # <<>> /\ written[c][2] = "k"

\* C12: a final result has status "ok" only if every task of the caller's
\* batch completed successfully.
C12_OkOnlyIfAllSucceeded ==
    \A c \in Calls :
        (pc[c] = "done" /\ outcome[c].status = "ok") => AllTasksSucceeded(c)

\* the envelope of call c, with every task of the batch, was handed to
\* stdin.write(); the outcome of a task is known only with the batch's result
Dispatched(c) == target[c] # 0

TaskTerminal(c, i) == pc[c] = "done"

\* the per-task entries of a result list, in the order of the list
Entries(results) ==
    [j \in 1..((Len(results) - 2) \div 2) |->
        [taskId |-> results[2 * j + 1], success |-> results[2 * j + 2] = "k"]]

\* call c was given a result list in which task i is reported as failed
TaskFailed(c, i) ==
    /\ pc[c] = "done"
    /\ outcome[c].via = "result"
    /\ \E j \in DOMAIN Entries(outcome[c].results) :
          /\ Entries(outcome[c].results)[j].taskId = IdChar[i]
          /\ ~Entries(outcome[c].results)[j].success

\* the tasks no wave of the resolver can take: those on or behind a cycle
RECURSIVE Unordered(_, _)
Unordered(tasks, S) ==
    LET ready == {i \in S : tasks[i].dependsOn \cap S = {}}
    IN  IF ready = {} THEN S ELSE Unordered(tasks, S \ ready)

Cyclic(tasks) == Unordered(tasks, 1..Len(tasks)) # {}

\* the application has no operation that asks for or receives an approval
ApprovalReceived(c, i) == FALSE

\* C13: a task has been handed to the worker only if every task of its
\* dependsOn has reached a terminal state.
C13_DispatchAfterPredecessors ==
    \A c \in Calls :
        Dispatched(c) =>
            \A i \in 1..Len(arg[c].tasks) :
                \A d \in arg[c].tasks[i].dependsOn : TaskTerminal(c, d)

\* C14: a task whose control.requiresApproval is true has been handed to the
\* worker only if an approval for it has been received.
C14_ApprovalBeforeExecution ==
    \A c \in Calls :
        Dispatched(c) =>
            \A i \in 1..Len(arg[c].tasks) :
                arg[c].tasks[i].requiresApproval => ApprovalReceived(c, i)

\* C15: a batch whose dependsOn graph has a cycle is rejected with an error
\* result and none of its tasks is handed to the worker.
C15_CycleRejected ==
    \A c \in Calls :
        (pc[c] # "idle" /\ Cyclic(arg[c].tasks)) =>
            /\ pc[c] = "done"
            /\ outcome[c].kind = "returned"
            /\ outcome[c].status = "error"
            /\ ~Dispatched(c)

\* C16: in a final result, no task is reported as executed after the failure
\* of a task whose control.onFailure is "abort": the tasks that were not yet
\* terminal then are skipped.
C16_AbortSkipsTheRest ==
    \A c \in Calls :
        (pc[c] = "done" /\ outcome[c].via = "result") =>
            LET done == Entries(outcome[c].results)
            IN  \A a \in DOMAIN done :
                    (/\ ~done[a].success
                     /\ \E i \in 1..Len(arg[c].tasks) :
                           /\ IdChar[i] = done[a].taskId
                           /\ arg[c].tasks[i].onFailure = "abort")
                        => a = Len(done)

\* C17: a task whose input binding refers to the output of a failed
\* predecessor has not been handed to the worker and is not reported as
\* executed.
C17_FailedBindingSkipsDependent ==
    \A c \in Calls :
        \A i \in 1..Len(arg[c].tasks) :
            \A d \in arg[c].tasks[i].inputBindings :
                TaskFailed(c, d) =>
                    /\ ~Dispatched(c)
                    /\ \A j \in DOMAIN Entries(outcome[c].results) :
                          Entries(outcome[c].results)[j].taskId # IdChar[i]

\* C20: a result list returned for a batch has one entry per submitted task,
\* in the order in which the tasks were submitted.
C20_ResultsInSubmissionOrder ==
    \A c \in Calls :
        (pc[c] = "done" /\ outcome[c].via = "result") =>
            /\ outcome[c].results[1] = IdChar[c]
            /\ [j \in DOMAIN Entries(outcome[c].results) |->
                   Entries(outcome[c].results)[j].taskId]
                 = [j \in 1..Len(arg[c].tasks) |-> IdChar[arg[c].tasks[j].taskId]]

\* C18: the operation that stops the worker's work on a batch in progress,
\* killActionExecutor(), ends every outstanding request of that worker: its
\* caller is told that the batch was cancelled.
C18_CancelEndsOutstanding ==
    [][killActionExecutor =>
          \A c \in Calls :
              (Outstanding(c) /\ target[c] = executorProcess)
                  => (pc'[c] = "done" /\ outcome'[c].message = "BatchCancelled")]_vars

\* C19: a request is failed for timeout only after every task of its batch
\* has had its own control.timeoutMs.
C19_NotBeforeOwnTimeout ==
    \A c \in Calls :
        (pc[c] = "done" /\ outcome[c].message = "Task execution timed out") =>
            \A i \in 1..Len(arg[c].tasks) : waited[c] >= arg[c].tasks[i].timeoutMs

\* C21: a batch submitted again after a successful run is handled like a first
\* submission: the run before it has left no timeout, no buffered text and no
\* listener, the new request is written and awaited with its own timeout, and
\* its result is the worker's response to it.
C21_ResubmissionIsFresh ==
    \A c \in Calls :
        /\ (pc[c] = "done" /\ outcome[c].via = "result") =>
              /\ timeout[c] = NoTimer
              /\ buffer[c] = <<>>
              /\ \A w \in Workers : listener[w] # <<c>>
              /\ outcome[c].results[1] = IdChar[c]
              /\ outcome[c].status = StatusOf(written[c])
        /\ pc[c] = "pending" =>
              /\ listener[target[c]] = <<c>>
              /\ timeout[c] = [active |-> TRUE, total |-> BatchTimeout(Len(arg[c].tasks))]
              /\ \A d \in Calls : d # c => timeout[d] = NoTimer /\ buffer[d] = <<>>

C21_Witness ==
    \E c \in Calls :
        /\ c > 1
        /\ pc[c] = "done"
        /\ outcome[c].via = "result"
        /\ arg[c] = arg[c - 1]
        /\ outcome[c - 1].status = "ok"
        /\ outcome[c].results[1] = IdChar[c]

\* the positions of call c's envelopes in what worker w has still to read
EnvelopesOf(c, pipe) == {i \in 1..Len(pipe) : pipe[i].call = c}

\* C22: the step that dispatches an accepted batch to a live worker appends
\* exactly one envelope to its input, holding the submitted tasks in the
\* submitted order, and touches no other input; no later step writes an
\* envelope of that call again.
C22_OneEnvelopePerDispatch ==
    [][\A c \in Calls :
         /\ (pc[c] = "idle" /\ pc'[c] = "pending") =>
               /\ proc[target'[c]] = "alive" =>
                     stdin'[target'[c]] =
                        Append(stdin[target'[c]],
                               [call |-> c, tasks |-> arg'[c].tasks])
               /\ \A w \in Workers : w # target'[c] => stdin'[w] = stdin[w]
         /\ pc[c] # "idle" =>
               \A w \in Workers :
                  Cardinality(EnvelopesOf(c, stdin'[w]))
                     <= Cardinality(EnvelopesOf(c, stdin[w]))]_vars

C22_Witness ==
    \E c \in Calls :
        /\ pc[c] = "pending"
        /\ Len(arg[c].tasks) > 1
        /\ proc[target[c]] = "alive"
        /\ Cardinality(EnvelopesOf(c, stdin[target[c]])) = 1
        /\ \E i \in EnvelopesOf(c, stdin[target[c]]) :
              stdin[target[c]][i].tasks = arg[c].tasks

\* C24: a call of executeTaskBatch that is not settled yet has a running
\* timeout of min(n x 30 s, 300 s) that has not been exceeded, whatever the
\* worker, the application or later calls have done since; a settled call
\* was settled within that time.
C24_SettlesWithinBatchTimeout ==
    \A c \in Calls :
        /\ pc[c] = "pending" =>
              /\ timeout[c].active
              /\ timeout[c].total = BatchTimeout(Len(arg[c].tasks))
              /\ waited[c] <= timeout[c].total
        /\ (pc[c] = "done" /\ Dispatched(c)) =>
              waited[c] <= BatchTimeout(Len(arg[c].tasks))

\* a call that was superseded by a later one, whose worker was then killed,
\* has been settled by its own timeout
C24_Witness ==
    \E c \in Calls :
        /\ \E d \in Calls : d > c /\ Dispatched(d)
        /\ executorProcess = 0
        /\ pc[c] = "done"
        /\ outcome[c].message = "Task execution timed out"
        /\ waited[c] = BatchTimeout(Len(arg[c].tasks))

\* the worker processes started so far
Started == {w \in Workers : proc[w] # "unborn"}

\* C25: isActionExecutorRunning() follows the worker started last: it is
\* true while that process is alive, and false once that process was never
\* spawned successfully or its exit has been handled.
C25_HandleTracksLatestWorker ==
    \A w \in Started :
        (\A v \in Started : v <= w) =>
            /\ proc[w] = "alive" => (isActionExecutorRunning /\ executorProcess = w)
            /\ proc[w] \in {"nostreams", "reaped"} => ~isActionExecutorRunning

\* C23: once handleTaskBatch has finished with a batch, on the success path
\* as on the error path, a task:result event has been emitted for each of
\* its tasks.
C23_ResultsEmitted ==
    \A c \in Calls :
        callback[c] # "none" =>
            \A i \in 1..Len(arg[c].tasks) :
                [event |-> "task:result", call |-> c,
                 task_id |-> arg[c].tasks[i].taskId] \in emitted

\* a refresh that has been started and whose promise is not settled
Active(n) == refresh[n].pc \notin {"unborn", "resolved", "rejected"}

Awaiting(r) == req[r].pc \in {"awaitToken", "awaitRefresh"}

\* C26: at most one refresh is in progress, at most one refresh request is
\* with the server, the refresh in progress is the one refreshAccessToken()
\* hands out, and the callers waiting for a refresh in progress all wait
\* for that same one.
C26_OneRefreshInFlight ==
    /\ Cardinality({n \in Runs : Active(n)}) <= 1
    /\ Cardinality({n \in Runs : refresh[n].pc = "fetch"}) <= 1
    /\ \A n \in Runs : Active(n) => (isRefreshing /\ refreshPromise = n)
    /\ \A r \in Requests :
          Awaiting(r) =>
             /\ refresh[req[r].awaits].pc # "unborn"
             /\ Active(req[r].awaits) => req[r].awaits = refreshPromise

C26_Witness ==
    \E r, q \in Requests :
        /\ r # q
        /\ Awaiting(r) /\ Awaiting(q)
        /\ req[r].awaits = req[q].awaits
        /\ refresh[req[r].awaits].pc = "fetch"

\* C27: a promise of addToQueue() is settled with the refresh that was in
\* progress when it was queued: once no refresh is in progress, no request
\* is left waiting in the queue.
C27_QueueSettledWithRefresh ==
    ~isRefreshing => \A r \in Requests : req[r].pc # "queued"

\* C28: a request is passed to axiosInstance again at most once: a request
\* that has been re-sent is not re-sent again, and a 401 response to it
\* neither queues it nor starts a refresh.
C28_ResentAtMostOnce ==
    [][\A r \in Requests :
         req[r].resent =>
            /\ (req[r].pc = "sent" => req'[r].pc \notin {"queued", "awaitRefresh"})
            /\ (req[r].pc \in {"queued", "awaitRefresh"} => req'[r].pc # "ready")]_vars

\* C29: a refresh that failed for a network error or a server error has
\* kept the stored tokens; a refresh that deleted them failed for an
\* authentication error.
C29_TokensKeptUnlessAuthError ==
    \A n \in Runs :
        /\ refresh[n].cause \in {"network", "server"} =>
              /\ ~refresh[n].cleared
              /\ refresh[n].pc \notin {"deleteAccess", "deleteRefresh"}
        /\ refresh[n].cleared => refresh[n].cause = "auth"

\* a socket whose handlers are bound
Bound(s) == sock[s] \in {"bound", "connected"}

\* C30: at most one socket has handlers bound, it is the socket the service
\* holds, and a handler that updates the connection state belongs to it.
C30_OneBoundSocket ==
    /\ Cardinality({s \in Connects : Bound(s)}) <= 1
    /\ \A s \in Connects : Bound(s) => socket = s
    /\ connectionState.connected => connectionState.from = socket

\* C31: at most one Audio is playing, and it is the one the provider holds.
C31_OneChunkPlaying ==
    /\ Cardinality({ch \in Chunks : audio[ch] = "playing"}) <= 1
    /\ \A ch \in Chunks : audio[ch] = "playing" => audioElement = ch

\* a chunk is playing after stop() and after another Audio has ended, while
\* an earlier Audio still has a handler that has not run
C31_Witness ==
    \E ch, prev \in Chunks :
        /\ ch # prev
        /\ audio[ch] = "playing"
        /\ audio[prev] = "stale"
        /\ stops > 0
        /\ lastAudioEndTime = 1

\* the elements of a sequence
Range(seq) == {seq[i] : i \in DOMAIN seq}

\* the chunks the provider has accepted and not yet played: those of the
\* active stream's queue and of the pending streams
Queued(queue, pending) ==
    Range(queue) \cup UNION {Range(pending[i].chunks) : i \in DOMAIN pending}

\* chunk q comes before chunk ch: it belongs to a stream whose tts-start
\* arrived earlier, or to the same stream and arrived earlier
Before(q, ch) == q[1] < ch[1] \/ (q[1] = ch[1] /\ q[2] < ch[2])

\* C32: streams are played in the order of their tts-start events and the
\* chunks of a stream in arrival order: when a chunk starts to play, no
\* accepted chunk that comes before it is still waiting to be played.
C32_PlayedInArrivalOrder ==
    [][\A ch \in Chunks :
          (audio[ch] # "playing" /\ audio'[ch] = "playing")
              => ~\E q \in Queued(chunkQueue', pendingStreams') : Before(q, ch)]_vars

\* every stream has been sent whole, no Audio is playing or has a handler
\* left to run, and no timer is pending: nothing but stop() can happen
TTSQuiet ==
    /\ \A st \in Streams : delivered[st].start /\ delivered[st].end
    /\ \A ch \in Chunks : audio[ch] = "none"
    /\ delayTimers = 0
    /\ resetTimers = 0

\* C33: every accepted chunk is eventually played unless stop() is called
\* afterwards: once nothing but stop() can happen, no accepted chunk is
\* left waiting in the active stream's queue or in a pending stream.
C33_AcceptedChunksPlayed ==
    TTSQuiet => Queued(chunkQueue, pendingStreams) = {}

\* C34: once set by finalizeSession the processing lock is released again,
\* by a server event or by the safety timeout: it never stays set for ever.
C34_LockReleased == isProcessingRef ~> ~isProcessingRef

\* the lock of a finalized session has been released by the safety timeout:
\* the ref still holds the timeout, which is no longer pending
C34_Witness ==
    /\ ~isProcessingRef
    /\ userStopSpeaking # 0
    /\ processingTimeoutRef = userStopSpeaking
    /\ processingTimeoutRef \notin timeouts

\* C35: while the processing lock is set no recording session is started
\* and no user-speaking message of a session newer than the one being
\* processed is emitted.
C35_NoNewSessionWhileLocked ==
    [][isProcessingRef =>
          /\ sessions' = sessions
          /\ \A rec \in Recorders :
                (recorder[rec] = "reading" /\ recorder'[rec] = "none")
                    => userSpeaking' <= userStopSpeaking]_vars

\* the lock of the latest session is set and a chunk recorded before it
\* was emitted while it was set (with no session id), the microphone
\* still open
C35_Witness ==
    /\ isProcessingRef
    /\ streamRef
    /\ sessions = userStopSpeaking
    /\ userSpeaking = 0

====
